---- MODULE Spec2Model ----
(***************************************************************************)
(* Model of the SQL self-correction orchestrator                           *)
(* (src/self_correction/self_correction_module.py) and of the parts of     *)
(* the validator it relies on.                                             *)
(*                                                                         *)
(* One behaviour of Spec is one call of SelfCorrectionModule.process on an *)
(* already constructed orchestrator.  The database, the LLM service, the   *)
(* random source and the log file system are the environment: each action  *)
(* draws their answer with \E.                                             *)
(*                                                                         *)
(* SpecArbiter applies _apply_intelligent_fallback_strategy to arguments   *)
(* drawn from bounded sets (the function on its own, outside process).     *)
(*                                                                         *)
(* The collaborators are modelled on their own as well:                    *)
(*   SpecClient     QwenAPIClient.get_correction (fixed.py)                *)
(*   SpecBatch      the log files of a run of self_correction_main         *)
(*   SpecValidator  SQLValidator.execute_sql (sql_validator.py)            *)
(*   SpecParser     _parse_llm_response on character strings               *)
(*   SpecCtor       SelfCorrectionModule.__init__                          *)
(*   SpecWire       get_correction with the requests of both dialects      *)
(*   SpecTrigger    execute_sql's row count followed by the decision       *)
(*   SpecPrompt     PromptGenerator (prompt_generator.py)                  *)
(*   SpecHint       the hint built for a failed or improvable statement    *)
(*   SpecReuse      one orchestrator shared by several calls of process    *)
(*   SpecInterrupt  process with asynchronous interrupts                   *)
(*   SpecStore      execute_sql and the content of the database file       *)
(***************************************************************************)
EXTENDS Integers, Sequences, FiniteSets, TLC

VARIABLES
    pc,                          \* position inside process
    request,                     \* the arguments of process and the lexical features of nlq / initial_sql
    correction_log,              \* the dict built at lines 69-83
    initial_validation_result,   \* local of process
    corrected_validation_result, \* local of process
    decision,                    \* (should_attempt_correction, reason) and the random draw, if consulted
    llm_response_raw,            \* local of process
    corrected_sql,               \* local of process
    exc,                         \* the exception in flight
    raisedIn,                    \* the step of this call that raised, and what it raised
    ret,                         \* what the caller receives
    calls,                       \* how often each collaborator was invoked in this call
    logSink,                     \* the records written to the log directory, in order
    logFailed,                   \* some write to the log directory failed
    arbIn,                       \* SpecArbiter: the arguments of the arbiter
    arbOut,                      \* SpecArbiter: its result
    max_retries,                 \* SpecClient: QwenAPIClient.max_retries
    attempt,                     \* SpecClient: the loop variable of get_correction
    transportLog,                \* SpecClient: what each attempt's API call did, in order
    sleeps,                      \* SpecClient: the arguments of time.sleep, in order
    clientResult,                \* SpecClient: how get_correction ended
    clock,                       \* SpecBatch: int(time.time())
    files,                       \* SpecBatch: the log directory, file name -> the request whose record the file holds
    batchReq,                    \* SpecBatch: the request being processed and the _save_log calls it still makes
    logged,                      \* SpecBatch: the requests for which some _save_log call wrote its file
    vReq,                        \* SpecValidator: the arguments of execute_sql and what the statement is like
    conn,                        \* SpecValidator: the local conn of execute_sql
    openConns,                   \* SpecValidator: connections opened by the validator and not closed
    vFault,                      \* SpecValidator: the exception raised inside the try block, and where
    vResult,                     \* SpecValidator: the pending or delivered outcome of execute_sql
    vCalls,                      \* SpecValidator: how many calls of execute_sql were started
    response_text,               \* SpecParser: the argument of _parse_llm_response, character by character
    parsed,                      \* SpecParser: its result
    config,                      \* SpecCtor: the SelfCorrectionConfig handed to SelfCorrectionModule
    built,                       \* SpecCtor: the collaborators __init__ has created so far
    networkCalls,                \* SpecCtor: requests sent to the LLM service
    served,                      \* SpecCtor: calls of process on the constructed orchestrator
    api_type,                    \* SpecWire: QwenAPIClient.api_type
    stop_sequences,              \* SpecWire: the number of stop sequences passed to get_correction
    wire,                        \* SpecWire: the requests posted and the sleeps of this call, in order
    payload,                     \* SpecWire: the JSON body of the response the call received
    connTest,                    \* SpecCtor: the completion call of the connection test and its verdict
    probe,                       \* SpecTrigger: the statement, the rows it yields and the lexical flags
    verdict,                     \* SpecTrigger: the validation result and the decision taken on it
    promptIn,                    \* SpecPrompt: the arguments of PromptGenerator() and the strategy asked for
    few_shot_examples,           \* SpecPrompt: PromptGenerator.few_shot_examples
    prompt,                      \* SpecPrompt: the prompt generate_prompt returned, part by part
    hintCase,                    \* SpecHint: what validating the initial SQL runs into
    hinted,                      \* SpecHint: the validation result, the reason of the decision and the hint
    instance,                    \* SpecReuse: the attributes of the orchestrator and its collaborators
    slots,                       \* SpecReuse: the locals of the calls of process in progress, one per caller
    database,                    \* SpecStore: the committed content of the database file
    session                      \* SpecStore: the connection execute_sql opened, its statement and its pending changes

procVars == <<pc, request, correction_log, initial_validation_result,
              corrected_validation_result, decision, llm_response_raw,
              corrected_sql, exc, raisedIn, ret, calls, logSink, logFailed>>
procLocals == <<request, correction_log, initial_validation_result,
                corrected_validation_result, decision, llm_response_raw,
                corrected_sql, exc, raisedIn, ret, calls, logSink, logFailed>>
arbVars == <<arbIn, arbOut>>
clientVars == <<max_retries, attempt, transportLog, sleeps, clientResult>>
batchVars == <<clock, files, batchReq, logged>>
validatorVars == <<vReq, conn, openConns, vFault, vResult, vCalls>>
parserVars == <<response_text, parsed>>
ctorVars == <<config, built, networkCalls, served, connTest>>
wireVars == <<api_type, stop_sequences, wire, payload>>
triggerVars == <<probe, verdict>>
promptVars == <<promptIn, few_shot_examples, prompt>>
hintVars == <<hintCase, hinted>>
reuseVars == <<instance, slots>>
storeVars == <<database, session>>
harnessVars == <<clientVars, batchVars, validatorVars, parserVars, ctorVars, wireVars, triggerVars, promptVars, hintVars, reuseVars, storeVars>>
\* what get_correction / the batch run / execute_sql / _parse_llm_response /
\* SelfCorrectionModule.__init__ leave alone
clientFrame == <<procLocals, arbVars, batchVars, validatorVars, parserVars, ctorVars, wireVars, triggerVars, promptVars, hintVars, reuseVars, storeVars>>
batchFrame == <<procLocals, arbVars, clientVars, validatorVars, parserVars, ctorVars, wireVars, triggerVars, promptVars, hintVars, reuseVars, storeVars>>
validatorFrame == <<procLocals, arbVars, clientVars, batchVars, parserVars, ctorVars, wireVars, triggerVars, promptVars, hintVars, reuseVars, storeVars>>
parserFrame == <<procLocals, arbVars, clientVars, batchVars, validatorVars, ctorVars, wireVars, triggerVars, promptVars, hintVars, reuseVars, storeVars>>
ctorFrame == <<procLocals, arbVars, clientVars, batchVars, validatorVars, parserVars, wireVars, triggerVars, promptVars, hintVars, reuseVars, storeVars>>
wireFrame == <<procLocals, arbVars, batchVars, validatorVars, parserVars, ctorVars, triggerVars, promptVars, hintVars, reuseVars, storeVars>>
triggerFrame == <<procLocals, arbVars, clientVars, batchVars, validatorVars, parserVars, ctorVars, wireVars, promptVars, hintVars, reuseVars, storeVars>>
promptFrame == <<procLocals, arbVars, clientVars, batchVars, validatorVars, parserVars, ctorVars, wireVars, triggerVars, hintVars, reuseVars, storeVars>>
hintFrame == <<procLocals, arbVars, clientVars, batchVars, validatorVars, parserVars, ctorVars, wireVars, triggerVars, promptVars, reuseVars, storeVars>>
reuseFrame == <<procLocals, arbVars, clientVars, batchVars, validatorVars, parserVars, ctorVars, wireVars, triggerVars, promptVars, hintVars, storeVars>>
storeFrame == <<procLocals, arbVars, clientVars, batchVars, validatorVars, parserVars, ctorVars, wireVars, triggerVars, promptVars, hintVars, reuseVars>>
vars == <<pc, request, correction_log, initial_validation_result,
          corrected_validation_result, decision, llm_response_raw,
          corrected_sql, exc, raisedIn, ret, calls, logSink, logFailed, arbIn, arbOut,
          max_retries, attempt, transportLog, sleeps, clientResult,
          clock, files, batchReq, logged,
          vReq, conn, openConns, vFault, vResult, vCalls,
          response_text, parsed, config, built, networkCalls, served,
          api_type, stop_sequences, wire, payload, connTest,
          probe, verdict,
          promptIn, few_shot_examples, prompt,
          hintCase, hinted,
          instance, slots,
          database, session>>

(***************************************************************************)
(* Bounds and program constants                                            *)
(***************************************************************************)

\* SpecArbiter draws both statement lengths from 0..MaxLen.
MaxLen == 42

\* Spec draws statement lengths from 0 and MinCandidateLen-1 .. MinCandidateLen+LenSpan.
LenSpan == 2

\* Number of distinct texts of one length.
NumTexts == 2

\* _extract_sql_from_text accepts a line only if len(sql_candidate) > 10.
MinCandidateLen == 10

\* random.random() < 0.02, in hundredths.
ExploreThreshold == 2

\* SpecClient draws max_retries from -1..MaxRetries.
MaxRetries == 3

\* SpecBatch: the clock runs from 0 to MaxClock, the batch holds MaxRequests items.
MaxClock == 2
MaxRequests == 3

\* SpecValidator: the number of execute_sql calls in a row.
MaxValidations == 2

\* SpecParser: a completion text is made of at most MaxFragments fragments.
MaxFragments == 4

\* SpecCtor: a constructed orchestrator serves at most MaxServed requests.
MaxServed == 2

\* SpecTrigger: a statement yields 0..MaxRows rows.
MaxRows == 2

\* SpecPrompt: a configured few-shot list holds at most MaxExamples examples.
MaxExamples == 2

\* SpecWire draws max_retries from 0..MaxWireRetries.
MaxWireRetries == 2

\* payload["stop"] = stop_sequences[:2]
MaxStopsSent == 2

\* SpecWire: the longest stop_sequences list passed to the client.
MaxStops == 3

\* time.sleep(5 * (attempt + 1)) after a rate-limited attempt.
RateLimitBackoff == 5

\* time.sleep(2 ** attempt) after a timeout or another transport error.
BackoffBase == 2

(***************************************************************************)
(* Values                                                                  *)
(***************************************************************************)

\* A string is its length and which text of that length it is; two strings are
\* equal character for character iff both agree.  The empty string is unique.
Str(n, t) == [len |-> n, txt |-> t]
EmptyStr == Str(0, 1)
None == Str(-1, 0)
Truthy(s) == s.len > 0

StrsOfLens(L) == {Str(n, t) : n \in (L \ {0}), t \in 1..NumTexts} \cup {EmptyStr}
ProcLens == {0} \cup ((MinCandidateLen - 1)..(MinCandidateLen + LenSpan))

\* db_path values: falsy, a bare file name, a file inside a directory.
DbPaths == {"", "d1.sqlite", "database/d1/d1.sqlite"}

\* random.random(), in hundredths.
DrawValues == {0, ExploreThreshold - 1, ExploreThreshold, 99}
NoDraw == -1

\* ExecutionResult (sql_validator.py): result_count -1 stands for None.
ExecutionResult(ok, msg, cnt) == [is_executable |-> ok, error_message |-> msg, result_count |-> cnt]
NoResult == ExecutionResult(FALSE, "unset", -1)

NoDecision == [attempt |-> FALSE, reason |-> "unset", draw |-> NoDraw]
NoRet == <<None, "none">>
NoFault == [step |-> "none", kind |-> "none"]
Fault(step, kind) == [step |-> step, kind |-> kind]
NoCalls == [validate |-> 0, llm |-> 0, parse |-> 0, arbitrate |-> 0, save_log |-> 0]

(***************************************************************************)
(* Pure helpers                                                            *)
(***************************************************************************)

\* os.path.basename(os.path.dirname(db_path)) if os.path.dirname(db_path) else "unknown"
DbId(db_path) ==
    CASE db_path = "database/d1/d1.sqlite" -> "d1"
      [] OTHER -> "unknown"

\* What SQLValidator.execute_sql can do with a non-empty statement and path:
\* rows / no_rows / no_count are successful executions (result_count > 0, = 0,
\* None), not_found .. schema are the failures it classifies, raise is a fault
\* that escapes it.
DbOutcomes == {"rows", "no_rows", "no_count", "not_found", "syntax", "schema", "raise"}

ExecuteSql(o) ==
    CASE o = "rows"      -> ExecutionResult(TRUE, "None", 1)
      [] o = "no_rows"   -> ExecutionResult(TRUE, "None", 0)
      [] o = "no_count"  -> ExecutionResult(TRUE, "None", -1)
      [] o = "not_found" -> ExecutionResult(FALSE, "Database file not found", -1)
      [] o = "syntax"    -> ExecutionResult(FALSE, "Syntax error", -1)
      [] o = "schema"    -> ExecutionResult(FALSE, "Schema error", -1)

\* SelfCorrectionModule._validate_sql
ValidateSql(sql, db_path, o) ==
    IF ~Truthy(sql) \/ db_path = ""
    THEN ExecutionResult(FALSE, "SQL or DB path is empty", -1)
    ELSE IF o = "raise"
         THEN ExecutionResult(FALSE, "Validator error", -1)
         ELSE ExecuteSql(o)

\* The policy with the exploration rate of the comment at line 230 (10%).
ShouldAttemptTenPercent(req, vr, d) ==
    IF ~vr.is_executable
    THEN [attempt |-> TRUE, reason |-> "not_executable", draw |-> NoDraw]
    ELSE IF vr.result_count = 0
    THEN [attempt |-> TRUE, reason |-> "empty_result", draw |-> NoDraw]
    ELSE IF req.pattern
    THEN [attempt |-> TRUE, reason |-> "error_pattern", draw |-> NoDraw]
    ELSE IF req.aggregate
    THEN [attempt |-> TRUE, reason |-> "aggregate_missing", draw |-> NoDraw]
    ELSE IF req.improve
    THEN [attempt |-> TRUE, reason |-> "potential_improvement", draw |-> NoDraw]
    ELSE IF d < 5 * ExploreThreshold
    THEN [attempt |-> TRUE, reason |-> "exploration", draw |-> d]
    ELSE [attempt |-> FALSE, reason |-> "no_correction", draw |-> d]

\* The policy without its step 1.
ShouldAttemptNoStep1(req, vr, d) ==
    IF vr.result_count = 0
    THEN [attempt |-> TRUE, reason |-> "empty_result", draw |-> NoDraw]
    ELSE IF req.pattern
    THEN [attempt |-> TRUE, reason |-> "error_pattern", draw |-> NoDraw]
    ELSE IF req.aggregate
    THEN [attempt |-> TRUE, reason |-> "aggregate_missing", draw |-> NoDraw]
    ELSE IF req.improve
    THEN [attempt |-> TRUE, reason |-> "potential_improvement", draw |-> NoDraw]
    ELSE IF d < ExploreThreshold
    THEN [attempt |-> TRUE, reason |-> "exploration", draw |-> d]
    ELSE [attempt |-> FALSE, reason |-> "no_correction", draw |-> d]

\* The decision policy with the lexical test (step 3) ahead of the test of the
\* result count (step 2).
ShouldAttemptPatternFirst(req, vr, d) ==
    IF ~vr.is_executable
    THEN [attempt |-> TRUE, reason |-> "not_executable", draw |-> NoDraw]
    ELSE IF req.pattern
    THEN [attempt |-> TRUE, reason |-> "error_pattern", draw |-> NoDraw]
    ELSE IF vr.result_count = 0
    THEN [attempt |-> TRUE, reason |-> "empty_result", draw |-> NoDraw]
    ELSE IF req.aggregate
    THEN [attempt |-> TRUE, reason |-> "aggregate_missing", draw |-> NoDraw]
    ELSE IF req.improve
    THEN [attempt |-> TRUE, reason |-> "potential_improvement", draw |-> NoDraw]
    ELSE IF d < ExploreThreshold
    THEN [attempt |-> TRUE, reason |-> "exploration", draw |-> d]
    ELSE [attempt |-> FALSE, reason |-> "no_correction", draw |-> d]

\* SelfCorrectionModule._should_attempt_correction; req carries the outcome of
\* the lexical tests on sql and nlq, d is the value random.random() yields
\* if it is called (step 6 only).  The draw field is not part of what the
\* code returns: it records the value drawn when line 230 is reached.
ShouldAttemptCorrection(req, vr, d) ==
    IF ~vr.is_executable
    THEN [attempt |-> TRUE, reason |-> "not_executable", draw |-> NoDraw]
    ELSE IF vr.result_count = 0
    THEN [attempt |-> TRUE, reason |-> "empty_result", draw |-> NoDraw]
    ELSE IF req.pattern
    THEN [attempt |-> TRUE, reason |-> "error_pattern", draw |-> NoDraw]
    ELSE IF req.aggregate
    THEN [attempt |-> TRUE, reason |-> "aggregate_missing", draw |-> NoDraw]
    ELSE IF req.improve
    THEN [attempt |-> TRUE, reason |-> "potential_improvement", draw |-> NoDraw]
    ELSE IF d < ExploreThreshold
    THEN [attempt |-> TRUE, reason |-> "exploration", draw |-> d]
    ELSE [attempt |-> FALSE, reason |-> "no_correction", draw |-> d]

\* The step of _should_attempt_correction that first touches nlq and the text
\* of sql (steps 3 and 4) is reached only past steps 1 and 2; a fault of the
\* policy can be raised only from there on.
DecisionCanRaise(vr) == vr.is_executable /\ vr.result_count # 0

\* The length test with <= for <.
ShorterOrEqualScaled(lc, li) == 5 * lc <= 6 * li

\* len(corrected_sql) < len(initial_sql) * 1.2.  The product is a double: for
\* len(initial_sql) a multiple of 5 it is the exact integer 6k (the relative
\* error of the double 1.2 is below half an ulp), otherwise it is at least 0.2
\* away from every integer, so the comparison with an integer equals the exact
\* one for every length below 2^53.
ShorterThanScaled(lc, li) == 5 * lc < 6 * li

\* The arbiter handing back the statement as the validator cleaned it (one
\* trailing terminator dropped) instead of the statement it was given.
ApplyFallbackCleaned(initial, ivr, corrected, cvr) ==
    IF Truthy(corrected) /\ cvr.is_executable /\ ~ivr.is_executable
    THEN <<Str(corrected.len - 1, corrected.txt), "corrected">>
    ELSE IF Truthy(corrected) /\ cvr.is_executable /\ ivr.is_executable
    THEN IF 5 * corrected.len < 6 * initial.len
         THEN <<Str(corrected.len - 1, corrected.txt), "corrected">>
         ELSE <<initial, "fallback_corrected_too_complex">>
    ELSE IF ivr.is_executable /\ (~Truthy(corrected) \/ ~cvr.is_executable)
    THEN <<initial, "fallback_to_initial">>
    ELSE <<initial, "both_not_executable">>

\* The arbiter without the tests "corrected_sql and".
ApplyFallbackNoPresenceCheck(initial, ivr, corrected, cvr) ==
    IF cvr.is_executable /\ ~ivr.is_executable
    THEN <<corrected, "corrected">>
    ELSE IF cvr.is_executable /\ ivr.is_executable
    THEN IF 5 * corrected.len < 6 * initial.len
         THEN <<corrected, "corrected">>
         ELSE <<initial, "fallback_corrected_too_complex">>
    ELSE IF ivr.is_executable /\ ~cvr.is_executable
    THEN <<initial, "fallback_to_initial">>
    ELSE <<initial, "both_not_executable">>

\* The arbiter handing back the candidate whenever there is one, whatever
\* the status.
ApplyFallbackKeepsCandidate(initial, ivr, corrected, cvr) ==
    IF Truthy(corrected) /\ cvr.is_executable /\ ~ivr.is_executable
    THEN <<corrected, "corrected">>
    ELSE IF Truthy(corrected) /\ cvr.is_executable /\ ivr.is_executable
    THEN IF 5 * corrected.len < 6 * initial.len
         THEN <<corrected, "corrected">>
         ELSE <<corrected, "fallback_corrected_too_complex">>
    ELSE IF ivr.is_executable /\ (~Truthy(corrected) \/ ~cvr.is_executable)
    THEN <<corrected, "fallback_to_initial">>
    ELSE <<corrected, "both_not_executable">>

\* SelfCorrectionModule._apply_intelligent_fallback_strategy
ApplyIntelligentFallbackStrategy(initial, ivr, corrected, cvr) ==
    IF Truthy(corrected) /\ cvr.is_executable /\ ~ivr.is_executable
    THEN <<corrected, "corrected">>
    ELSE IF Truthy(corrected) /\ cvr.is_executable /\ ivr.is_executable
    THEN IF ShorterThanScaled(corrected.len, initial.len)
         THEN <<corrected, "corrected">>
         ELSE <<initial, "fallback_corrected_too_complex">>
    ELSE IF ivr.is_executable /\ (~Truthy(corrected) \/ ~cvr.is_executable)
    THEN <<initial, "fallback_to_initial">>
    ELSE <<initial, "both_not_executable">>

\* What get_correction hands back: a text.  Of a text the model keeps the line
\* at which the parser's scan stops (cand, with kw: it holds a statement
\* keyword) or, when the scan accepts no line, one of the lines it rejected;
\* the empty text has no line.
EmptyResponse == [cand |-> EmptyStr, kw |-> FALSE]
NoResponse == [cand |-> None, kw |-> FALSE]
Responses == [cand : StrsOfLens(ProcLens) \ {EmptyStr}, kw : BOOLEAN] \cup {EmptyResponse}

\* SelfCorrectionModule._parse_llm_response / _extract_sql_from_text
ParseLLMResponse(resp) ==
    IF ~Truthy(resp.cand) THEN None
    ELSE IF resp.cand.len > MinCandidateLen /\ resp.kw THEN resp.cand
    ELSE None

\* _save_log without its try / except: a failed write raises.
SaveLogPropagates(writeOK) == [written |-> writeOK, raised |-> ~writeOK]

\* SelfCorrectionModule._save_log: the write is inside try / except Exception.
SaveLogOutcome(writeOK) == [written |-> writeOK, raised |-> FALSE]

\* _save_log noting a failed write in the record it was given.
LogAfterSaveMarksFailure(log, writeOK) ==
    IF writeOK THEN log ELSE [log EXCEPT !.correction_status = "log_error"]

\* _save_log leaves the dict it is given as it is.
LogAfterSave(log, writeOK) == log

\* process without its "except LLMError" clause.
LLMCallHandlerOuterOnly(kind) == "except"

\* Which handler of process an exception raised by get_correction reaches:
\* "except LLMError" (line 137) or the outer "except Exception" (line 173).
LLMCallHandler(kind) == IF kind = "LLMError" THEN "llm_error" ELSE "except"

\* The record as json.dump writes it.
Written(sink, log, out) == IF out.written THEN Append(sink, log) ELSE sink

(***************************************************************************)
(* State of the specifications that exercise one collaborator on its own,  *)
(* while that collaborator is not running                                  *)
(***************************************************************************)

NoClientResult == [kind |-> "running", detail |-> "none", text |-> 0]

ClientIdle ==
    /\ max_retries = 0
    /\ attempt = 0
    /\ transportLog = <<>>
    /\ sleeps = <<>>
    /\ clientResult = NoClientResult

\* the database ids of the batch; "unknown" is what process derives from a
\* db_path without a directory
BatchDbIds == {"d1", "d2", "unknown"}

\* f"correction_log_{db_id}_{timestamp}.json": the name is determined by, and
\* determines, the pair (db_id, timestamp)
LogFileName(db_id, timestamp) == <<db_id, timestamp>>
LogFileNames == {LogFileName(d, t) : d \in BatchDbIds, t \in 0..MaxClock}

NoBatchReq == [no |-> 0, db_id |-> "unknown", saves |-> 0]

BatchIdle ==
    /\ clock = 0
    /\ files = [n \in LogFileNames |-> 0]
    /\ batchReq = NoBatchReq
    /\ logged = {}

NoVReq == [sql_blank |-> TRUE, db |-> "falsy", cleaned_empty |-> FALSE,
           select |-> FALSE, fetch_results |-> TRUE]
NoEngineMessage == [cause |-> "none", ident |-> "name"]
NoVFault == [stage |-> "none", class |-> "none", msg |-> NoEngineMessage]
NoVResult == [kind |-> "running", value |-> NoResult]

ValidatorIdle ==
    /\ vReq = NoVReq
    /\ conn = "none"
    /\ openConns = 0
    /\ vFault = NoVFault
    /\ vResult = NoVResult
    /\ vCalls = 0

\* Python's None where a character string is expected; no string equals it
NoText == <<"None">>

ParserIdle ==
    /\ response_text = <<>>
    /\ parsed = NoText

\* A configuration, as far as construction looks at it: whether the API key
\* and the endpoint are non-empty, whether temperature and max_tokens are in
\* range, the keys of prompt_templates, whether few_shot_examples is non-empty.
RequiredTemplates == {"generic", "guided"}
ValidConfig == [api_key |-> TRUE, endpoint |-> TRUE, temperature_ok |-> TRUE,
                max_tokens_ok |-> TRUE, templates |-> RequiredTemplates, few_shot |-> TRUE]

\* what get_correction hands to test_connection: a text (empty, holding one of
\* the success indicators, or another text), None, or an exception
Completion(kind, text) == [kind |-> kind, text |-> text]
\* what test_connection and _test_api_connection hand on
Verdict(raised, ok) == [raised |-> raised, ok |-> ok]
NoConnTest == [call |-> Completion("not_called", "none"), client |-> Verdict(FALSE, FALSE),
               module |-> Verdict(FALSE, FALSE)]

CtorIdle ==
    /\ config = ValidConfig
    /\ built = {}
    /\ networkCalls = 0
    /\ served = 0
    /\ connTest = NoConnTest

\* The JSON body of a response, as far as the client looks at it.  For the
\* chat dialect choices is the top-level list; for the task dialect
\* status_code, error and output are top-level fields and text and choices are
\* fields of the output object.  content: of the first choice's message.
Payload(status_code, error, output, text, choices, message, content) ==
    [status_code |-> status_code, error |-> error, output |-> output, text |-> text,
     choices |-> choices, message |-> message, content |-> content]
NoPayload == Payload("absent", FALSE, "absent", "absent", "absent", FALSE, "absent")

WireIdle ==
    /\ api_type = "openai_compatible"
    /\ stop_sequences = 0
    /\ wire = <<>>
    /\ payload = NoPayload

\* One statement run against the database, with the flags of the lexical tests.
NoProbe == [sql |-> <<>>, rows |-> 0, pattern |-> FALSE, aggregate |-> FALSE, improve |-> FALSE]
NoVerdict == [result |-> NoResult, decision |-> NoDecision]
TriggerIdle ==
    /\ probe = NoProbe
    /\ verdict = NoVerdict

\* PromptGenerator() called with no argument, before any prompt is built
NoPromptIn == [examples |-> [given |-> FALSE, list |-> <<>>],
               templates |-> [given |-> FALSE, generic |-> "text", guided |-> "text"],
               strategy |-> "generic"]
PromptIdle ==
    /\ promptIn = NoPromptIn
    /\ few_shot_examples = <<>>
    /\ prompt = <<>>

\* No statement validated, no hint built.
NoHintCase == [kind |-> "none", fault |-> NoVFault, text |-> "none"]
NoHinted == [result |-> NoResult, reason |-> "unset", hint |-> "unset"]
HintIdle ==
    /\ hintCase = NoHintCase
    /\ hinted = NoHinted

\* The attributes of a constructed orchestrator and of its collaborators
\* (module lines 30-45, prompt_generator.py 20-21, fixed.py 313-317,
\* sql_validator.py 34), for the default configuration.
ConstructedInstance ==
    [config |-> ValidConfig,
     prompt_templates |-> RequiredTemplates,
     few_shot_examples |-> <<"cities", "sales_department">>,
     client |-> [max_retries |-> 3, timeout |-> 30, api_type |-> "openai_compatible"],
     validator |-> [timeout_seconds |-> 30],
     log_dir |-> "logs"]
Callers == {1, 2}
NoReuseInput == [o1 |-> "none", d |-> NoDraw, llm |-> "none", o2 |-> "none"]
IdleSlot == [phase |-> "idle", in |-> NoReuseInput, ivr |-> NoResult, pair |-> NoRet]
ReuseIdle ==
    /\ instance = ConstructedInstance
    /\ slots = [c \in Callers |-> IdleSlot]

\* A database file: its tables and the rows of table t.
Content(tables, rows) == [tables |-> tables, rows |-> rows]
NoContent == Content({}, <<>>)
NoStatement == [verb |-> "none", cte |-> FALSE]
NoSession == [stmt |-> NoStatement, before |-> NoContent, working |-> NoContent,
              in_transaction |-> FALSE, error |-> "unset"]
StoreIdle ==
    /\ database = NoContent
    /\ session = NoSession

HarnessIdle == ClientIdle /\ BatchIdle /\ ValidatorIdle /\ ParserIdle /\ CtorIdle /\ WireIdle /\ TriggerIdle /\ PromptIdle /\ HintIdle /\ ReuseIdle /\ StoreIdle

(***************************************************************************)
(* SelfCorrectionModule.process, one action per step                       *)
(***************************************************************************)

Requests == [initial_sql : StrsOfLens(ProcLens), db_path : DbPaths,
             pattern : BOOLEAN, aggregate : BOOLEAN, improve : BOOLEAN]

UnsetLog == [db_id |-> "unset", initial_sql |-> None, corrected_sql_llm |-> None,
             final_sql_output |-> None, initial_sql_executable |-> FALSE,
             corrected_sql_executable |-> FALSE, validation_error |-> "None",
             correction_status |-> "unset", prompt_used |-> FALSE,
             correction_reason |-> "None"]

NoArb == [initial |-> None, ivr |-> FALSE, corrected |-> None, cvr |-> FALSE]

Init ==
    /\ pc = "start"
    /\ request \in Requests
    /\ correction_log = UnsetLog
    /\ initial_validation_result = NoResult
    /\ corrected_validation_result = NoResult
    /\ decision = NoDecision
    /\ llm_response_raw = NoResponse
    /\ corrected_sql = None
    /\ exc = "none"
    /\ raisedIn = NoFault
    /\ ret = NoRet
    /\ calls = NoCalls
    /\ logSink = <<>>
    /\ logFailed = FALSE
    /\ arbIn = NoArb
    /\ arbOut = NoRet
    /\ HarnessIdle

\* lines 67-84: db_id and the initial correction_log
Start ==
    /\ pc = "start"
    /\ correction_log' = [db_id |-> DbId(request.db_path),
                          initial_sql |-> request.initial_sql,
                          corrected_sql_llm |-> None,
                          final_sql_output |-> request.initial_sql,
                          initial_sql_executable |-> FALSE,
                          corrected_sql_executable |-> FALSE,
                          validation_error |-> "None",
                          correction_status |-> "correction_failed",
                          prompt_used |-> FALSE,
                          correction_reason |-> "None"]
    /\ pc' = "validate_initial"
    /\ UNCHANGED <<raisedIn, request, initial_validation_result, corrected_validation_result,
                   decision, llm_response_raw, corrected_sql, exc, ret, calls,
                   logSink, logFailed, arbIn, arbOut, harnessVars>>

\* lines 88-89
ValidateInitial ==
    /\ pc = "validate_initial"
    /\ \E o \in DbOutcomes :
         LET vr == ValidateSql(request.initial_sql, request.db_path, o) IN
           /\ initial_validation_result' = vr
           /\ correction_log' = [correction_log EXCEPT !.initial_sql_executable = vr.is_executable]
    /\ calls' = [calls EXCEPT !.validate = @ + 1]
    /\ pc' = "decide"
    /\ UNCHANGED <<raisedIn, request, corrected_validation_result, decision, llm_response_raw,
                   corrected_sql, exc, ret, logSink, logFailed, arbIn, arbOut, harnessVars>>

\* lines 92-97: the decision policy, or a fault raised inside it
Decide ==
    /\ pc = "decide"
    /\ \/ \E d \in DrawValues :
            LET dec == ShouldAttemptCorrection(request, initial_validation_result, d) IN
              /\ decision' = dec
              /\ correction_log' = [correction_log EXCEPT !.correction_reason = dec.reason]
              /\ pc' = IF dec.attempt THEN "build_prompt" ELSE "skip"
              /\ exc' = exc
              /\ raisedIn' = raisedIn
       \/ /\ DecisionCanRaise(initial_validation_result)
          /\ exc' = "Exception"
          /\ raisedIn' = Fault("decide", "Exception")
          /\ pc' = "except"
          /\ UNCHANGED <<decision, correction_log>>
    /\ UNCHANGED <<request, initial_validation_result, corrected_validation_result,
                   llm_response_raw, corrected_sql, ret, calls, logSink, logFailed,
                   arbIn, arbOut, harnessVars>>

\* lines 98-103: no correction needed; the return statement hands over to finally
Skip ==
    /\ pc = "skip"
    /\ \E writeOK \in BOOLEAN :
         LET out == SaveLogOutcome(writeOK)
             log == [correction_log EXCEPT !.correction_status = "no_correction_needed",
                                           !.final_sql_output = request.initial_sql] IN
           /\ correction_log' = LogAfterSave(log, writeOK)
           /\ logSink' = Written(logSink, log, out)
           /\ logFailed' = (logFailed \/ ~writeOK)
           /\ IF out.raised
              THEN /\ exc' = "Exception"
                   /\ raisedIn' = Fault("save_log", "Exception")
                   /\ pc' = "except"
                   /\ ret' = ret
              ELSE /\ exc' = exc
                   /\ raisedIn' = raisedIn
                   /\ pc' = "finally"
                   /\ ret' = <<request.initial_sql, "no_correction_needed">>
    /\ calls' = [calls EXCEPT !.save_log = @ + 1]
    /\ UNCHANGED <<request, initial_validation_result, corrected_validation_result,
                   decision, llm_response_raw, corrected_sql, arbIn, arbOut, harnessVars>>

\* lines 106-125: hint, schema text, prompt; formatting the schema or the
\* template can raise
BuildPrompt ==
    /\ pc = "build_prompt"
    /\ \/ /\ correction_log' = [correction_log EXCEPT !.prompt_used = TRUE]
          /\ pc' = "call_llm"
          /\ exc' = exc
          /\ raisedIn' = raisedIn
       \/ /\ exc' = "Exception"
          /\ raisedIn' = Fault("build_prompt", "Exception")
          /\ pc' = "except"
          /\ UNCHANGED correction_log
    /\ UNCHANGED <<request, initial_validation_result, corrected_validation_result,
                   decision, llm_response_raw, corrected_sql, ret, calls, logSink,
                   logFailed, arbIn, arbOut, harnessVars>>

\* lines 128-136: get_correction returns a text, raises LLMError, or raises
\* something else (also: line 136 slicing what it returned)
CallLLM ==
    /\ pc = "call_llm"
    /\ calls' = [calls EXCEPT !.llm = @ + 1]
    /\ \/ \E resp \in Responses :
            /\ llm_response_raw' = resp
            /\ pc' = "parse"
            /\ exc' = exc
            /\ raisedIn' = raisedIn
       \/ \E kind \in {"LLMError", "Exception"} :
            /\ exc' = kind
            /\ raisedIn' = Fault("call_llm", kind)
            /\ pc' = LLMCallHandler(kind)
            /\ UNCHANGED llm_response_raw
    /\ UNCHANGED <<request, correction_log, initial_validation_result,
                   corrected_validation_result, decision, corrected_sql, ret,
                   logSink, logFailed, arbIn, arbOut, harnessVars>>

\* lines 137-143: except LLMError
LLMErrorHandler ==
    /\ pc = "llm_error"
    /\ \E writeOK \in BOOLEAN :
         LET out == SaveLogOutcome(writeOK)
             log == [correction_log EXCEPT !.validation_error = "LLM API Error",
                                           !.correction_status = "api_error"] IN
           /\ correction_log' = LogAfterSave(log, writeOK)
           /\ logSink' = Written(logSink, log, out)
           /\ logFailed' = (logFailed \/ ~writeOK)
           /\ IF out.raised
              THEN /\ exc' = "Exception"
                   /\ raisedIn' = Fault("save_log", "Exception")
                   /\ pc' = "except"
                   /\ ret' = ret
              ELSE /\ exc' = "none"
                   /\ raisedIn' = raisedIn
                   /\ pc' = "finally"
                   /\ ret' = <<request.initial_sql, log.correction_status>>
    /\ calls' = [calls EXCEPT !.save_log = @ + 1]
    /\ UNCHANGED <<request, initial_validation_result, corrected_validation_result,
                   decision, llm_response_raw, corrected_sql, arbIn, arbOut, harnessVars>>

\* lines 146-148
Parse ==
    /\ pc = "parse"
    /\ calls' = [calls EXCEPT !.parse = @ + 1]
    /\ \/ /\ corrected_sql' = ParseLLMResponse(llm_response_raw)
          /\ correction_log' = [correction_log EXCEPT
                                  !.corrected_sql_llm = ParseLLMResponse(llm_response_raw)]
          /\ pc' = "validate_corrected"
          /\ exc' = exc
          /\ raisedIn' = raisedIn
       \/ /\ exc' = "Exception"
          /\ raisedIn' = Fault("parse", "Exception")
          /\ pc' = "except"
          /\ UNCHANGED <<corrected_sql, correction_log>>
    /\ UNCHANGED <<request, initial_validation_result, corrected_validation_result,
                   decision, llm_response_raw, ret, logSink, logFailed, arbIn, arbOut, harnessVars>>

\* Lines 150-160 without the test "if corrected_sql": the validator is run on
\* whatever the parser returned.
ValidateCorrectedAlways ==
    /\ pc = "validate_corrected"
    /\ \E o \in DbOutcomes :
         LET vr == ValidateSql(corrected_sql, request.db_path, o) IN
           /\ corrected_validation_result' = vr
           /\ correction_log' = [correction_log EXCEPT
                !.corrected_sql_executable = vr.is_executable,
                !.validation_error = IF vr.is_executable THEN @ ELSE vr.error_message]
    /\ calls' = [calls EXCEPT !.validate = @ + 1]
    /\ pc' = "arbitrate"
    /\ UNCHANGED <<raisedIn, request, initial_validation_result, decision, llm_response_raw,
                   corrected_sql, exc, ret, logSink, logFailed, arbIn, arbOut, harnessVars>>

\* Lines 150-160 without the assignment of line 154: the second validation
\* leaves no trace in the record.
ValidateCorrectedUnrecorded ==
    /\ pc = "validate_corrected"
    /\ IF Truthy(corrected_sql)
       THEN /\ \E o \in DbOutcomes :
                 corrected_validation_result' = ValidateSql(corrected_sql, request.db_path, o)
            /\ calls' = [calls EXCEPT !.validate = @ + 1]
            /\ correction_log' = correction_log
       ELSE /\ corrected_validation_result' =
                 ExecutionResult(FALSE, "No corrected SQL to validate", -1)
            /\ correction_log' = [correction_log EXCEPT
                 !.validation_error = "LLM returned empty or unparseable SQL"]
            /\ calls' = calls
    /\ pc' = "arbitrate"
    /\ UNCHANGED <<raisedIn, request, initial_validation_result, decision, llm_response_raw,
                   corrected_sql, exc, ret, logSink, logFailed, arbIn, arbOut, harnessVars>>

\* lines 150-160
ValidateCorrected ==
    /\ pc = "validate_corrected"
    /\ IF Truthy(corrected_sql)
       THEN /\ \E o \in DbOutcomes :
                 LET vr == ValidateSql(corrected_sql, request.db_path, o) IN
                   /\ corrected_validation_result' = vr
                   /\ correction_log' = [correction_log EXCEPT
                        !.corrected_sql_executable = vr.is_executable,
                        !.validation_error = IF vr.is_executable THEN @ ELSE vr.error_message]
            /\ calls' = [calls EXCEPT !.validate = @ + 1]
       ELSE /\ corrected_validation_result' =
                 ExecutionResult(FALSE, "No corrected SQL to validate", -1)
            /\ correction_log' = [correction_log EXCEPT
                 !.validation_error = "LLM returned empty or unparseable SQL"]
            /\ calls' = calls
    /\ pc' = "arbitrate"
    /\ UNCHANGED <<raisedIn, request, initial_validation_result, decision, llm_response_raw,
                   corrected_sql, exc, ret, logSink, logFailed, arbIn, arbOut, harnessVars>>

\* lines 163-171
Arbitrate ==
    /\ pc = "arbitrate"
    /\ calls' = [calls EXCEPT !.arbitrate = @ + 1]
    /\ \/ LET r == ApplyIntelligentFallbackStrategy(
                     request.initial_sql, initial_validation_result,
                     IF Truthy(corrected_sql) THEN corrected_sql ELSE request.initial_sql,
                     corrected_validation_result) IN
            /\ correction_log' = [correction_log EXCEPT !.final_sql_output = r[1],
                                                        !.correction_status = r[2]]
            /\ pc' = "finally"
            /\ exc' = exc
            /\ raisedIn' = raisedIn
       \/ /\ exc' = "Exception"
          /\ raisedIn' = Fault("arbitrate", "Exception")
          /\ pc' = "except"
          /\ UNCHANGED correction_log
    /\ UNCHANGED <<request, initial_validation_result, corrected_validation_result,
                   decision, llm_response_raw, corrected_sql, ret, logSink, logFailed,
                   arbIn, arbOut, harnessVars>>

\* The handler setting only the locals final_sql and correction_status
\* (lines 177-178), not the dict the finally clause returns from.
ExceptHandlerLocalsOnly ==
    /\ pc = "except"
    /\ exc' = "none"
    /\ pc' = "finally"
    /\ UNCHANGED <<raisedIn, request, correction_log, initial_validation_result,
                   corrected_validation_result, decision, llm_response_raw,
                   corrected_sql, ret, calls, logSink, logFailed, arbIn, arbOut, harnessVars>>

\* lines 173-178: except Exception
ExceptHandler ==
    /\ pc = "except"
    /\ correction_log' = [correction_log EXCEPT
                            !.validation_error = "Unexpected internal error",
                            !.correction_status = "internal_error"]
    /\ exc' = "none"
    /\ pc' = "finally"
    /\ UNCHANGED <<raisedIn, request, initial_validation_result, corrected_validation_result,
                   decision, llm_response_raw, corrected_sql, ret, calls, logSink,
                   logFailed, arbIn, arbOut, harnessVars>>

\* The finally clause returning without the call of _save_log (line 182).
FinallyReturnsUnlogged ==
    /\ pc = "finally"
    /\ exc' = "none"
    /\ pc' = "returned"
    /\ ret' = <<correction_log.final_sql_output, correction_log.correction_status>>
    /\ UNCHANGED <<raisedIn, request, correction_log, initial_validation_result,
                   corrected_validation_result, decision, llm_response_raw,
                   corrected_sql, calls, logSink, logFailed, arbIn, arbOut, harnessVars>>

\* lines 180-183: finally saves the log and returns from the dict, replacing
\* the value of a return statement that led here
Finally ==
    /\ pc = "finally"
    /\ \E writeOK \in BOOLEAN :
         LET out == SaveLogOutcome(writeOK) IN
           /\ correction_log' = LogAfterSave(correction_log, writeOK)
           /\ logSink' = Written(logSink, correction_log, out)
           /\ logFailed' = (logFailed \/ ~writeOK)
           /\ IF out.raised
              THEN /\ exc' = "Exception"
                   /\ raisedIn' = Fault("save_log", "Exception")
                   /\ pc' = "raised"
                   /\ ret' = NoRet
              ELSE /\ exc' = "none"
                   /\ raisedIn' = raisedIn
                   /\ pc' = "returned"
                   /\ ret' = <<correction_log'.final_sql_output,
                               correction_log'.correction_status>>
    /\ calls' = [calls EXCEPT !.save_log = @ + 1]
    /\ UNCHANGED <<request, initial_validation_result, corrected_validation_result,
                   decision, llm_response_raw, corrected_sql, arbIn, arbOut, harnessVars>>

Next ==
    \/ Start
    \/ ValidateInitial
    \/ Decide
    \/ Skip
    \/ BuildPrompt
    \/ CallLLM
    \/ LLMErrorHandler
    \/ Parse
    \/ ValidateCorrected
    \/ Arbitrate
    \/ ExceptHandler
    \/ Finally

Spec == Init /\ [][Next]_vars

(***************************************************************************)
(* _apply_intelligent_fallback_strategy on its own                         *)
(***************************************************************************)

ArbInputs == [initial : StrsOfLens(0..MaxLen) \cup {None}, ivr : BOOLEAN,
              corrected : StrsOfLens(0..MaxLen) \cup {None}, cvr : BOOLEAN]

InitArbiter ==
    /\ pc = "arb_ready"
    /\ request = [initial_sql |-> None, db_path |-> "", pattern |-> FALSE,
                  aggregate |-> FALSE, improve |-> FALSE]
    /\ correction_log = UnsetLog
    /\ initial_validation_result = NoResult
    /\ corrected_validation_result = NoResult
    /\ decision = NoDecision
    /\ llm_response_raw = NoResponse
    /\ corrected_sql = None
    /\ exc = "none"
    /\ raisedIn = NoFault
    /\ ret = NoRet
    /\ calls = NoCalls
    /\ logSink = <<>>
    /\ logFailed = FALSE
    /\ arbIn \in ArbInputs
    /\ arbOut = NoRet
    /\ HarnessIdle

ArbApply ==
    /\ pc = "arb_ready"
    /\ arbOut' = ApplyIntelligentFallbackStrategy(
                    arbIn.initial, ExecutionResult(arbIn.ivr, "None", -1),
                    arbIn.corrected, ExecutionResult(arbIn.cvr, "None", -1))
    /\ pc' = "arb_done"
    /\ UNCHANGED <<request, correction_log, initial_validation_result,
                   corrected_validation_result, decision, llm_response_raw,
                   corrected_sql, exc, raisedIn, ret, calls, logSink, logFailed, arbIn, harnessVars>>

NextArbiter == ArbApply

SpecArbiter == InitArbiter /\ [][NextArbiter]_vars

(***************************************************************************)
(* Properties of process (checked under Spec)                              *)
(***************************************************************************)

Returned == pc = "returned"
InitialSql == request.initial_sql

\* C1: the SQL string process returns is the initial SQL passed in or the
\* corrected SQL the parser extracted from the LLM response of this call;
\* no third string is returned.
C1_FinalIsInitialOrCorrected ==
    Returned =>
      \/ ret[1] = InitialSql
      \/ /\ calls.parse = 1
         /\ ret[1] # None
         /\ ret[1] = ParseLLMResponse(llm_response_raw)

\* A call that returned the parser's candidate, a string other than the initial SQL.
C1_Witness ==
    /\ Returned
    /\ ret[1] = corrected_sql
    /\ ret[1] # InitialSql
    /\ ret[2] = "corrected"

\* C2: process never propagates an error: whatever is raised in a step, the
\* call goes on until it returns a (final SQL, status) pair.
C2_NeverPropagates ==
    /\ pc # "raised"
    /\ Returned \/ ENABLED Next
    /\ Returned => (ret # NoRet /\ exc = "none")

\* A call that returned although its parse step raised and a log write failed.
C2_Witness ==
    /\ Returned
    /\ raisedIn = Fault("parse", "Exception")
    /\ logFailed
    /\ ret # NoRet

\* C3: when get_correction fails with LLMError, process returns
\* (initial SQL, "api_error"), and nothing is parsed, no corrected statement
\* is validated and no arbitration takes place in that call.
C3_LLMErrorGivesApiError ==
    raisedIn = Fault("call_llm", "LLMError") =>
      /\ calls.parse = 0
      /\ calls.arbitrate = 0
      /\ calls.validate = 1
      /\ corrected_validation_result = NoResult
      /\ corrected_sql = None
      /\ Returned => ret = <<InitialSql, "api_error">>

\* A call that returned after get_correction raised LLMError.
C3_Witness ==
    /\ Returned
    /\ raisedIn = Fault("call_llm", "LLMError")
    /\ calls.llm = 1
    /\ ret = <<InitialSql, "api_error">>

\* C4: when a step raises anything other than an LLMError from the LLM call,
\* process returns (initial SQL, "internal_error").
C4_OtherFaultGivesInternalError ==
    (Returned /\ raisedIn # NoFault /\ raisedIn.kind # "LLMError") =>
      ret = <<InitialSql, "internal_error">>

\* A call that returned after building the prompt raised.
C4_Witness ==
    /\ Returned
    /\ raisedIn = Fault("build_prompt", "Exception")
    /\ ret = <<InitialSql, "internal_error">>

\* The policy ran to its end on an executable statement, none of its steps 1 to
\* 5 matched and the draw did not fire the exploration step.
NoTrigger ==
    /\ decision # NoDecision
    /\ initial_validation_result.is_executable
    /\ initial_validation_result.result_count # 0
    /\ ~request.pattern
    /\ ~request.aggregate
    /\ ~request.improve
    /\ decision.draw >= ExploreThreshold

\* C5: executable initial SQL, no step 1-5 matches, exploration does not fire:
\* process returns (initial SQL, "no_correction_needed") and get_correction is
\* never invoked.
C5_NoTriggerSkipsLLM ==
    NoTrigger =>
      /\ calls.llm = 0
      /\ pc \in {"skip", "finally", "returned"}
      /\ Returned => ret = <<InitialSql, "no_correction_needed">>

\* A call that skipped correction, the draw being exactly the threshold.
C5_Witness ==
    /\ Returned
    /\ NoTrigger
    /\ decision.draw = ExploreThreshold
    /\ ret = <<InitialSql, "no_correction_needed">>

Validated == pc \notin {"start", "validate_initial"}
Decided == pc \notin {"start", "validate_initial", "decide"}

\* C6: a non-executable initial SQL is always sent to correction, whatever the
\* question, the text and the draw: the status is never "no_correction_needed".
C6_NotExecutableAlwaysAttempts ==
    (Validated /\ ~initial_validation_result.is_executable) =>
      /\ pc # "skip"
      /\ Decided => (decision.attempt /\ decision.reason = "not_executable")
      /\ Returned => ret[2] # "no_correction_needed"

\* A non-executable statement that triggers nothing else was corrected.
C6_Witness ==
    /\ Returned
    /\ ~initial_validation_result.is_executable
    /\ Truthy(InitialSql)
    /\ ~request.pattern /\ ~request.aggregate /\ ~request.improve
    /\ ret[2] = "corrected"

\* C9: on every path the audit record is written exactly once, never twice
\* (and, unless a write failed, never zero times).
C9_LoggedExactlyOnce ==
    Returned => (logFailed \/ (Len(logSink) = 1 /\ calls.save_log = 1))

\* The pair process returns as the steps other than log writing determine it.
OutcomeWithoutLog ==
    IF raisedIn.kind = "LLMError" THEN <<InitialSql, "api_error">>
    ELSE IF raisedIn.kind = "Exception" THEN <<InitialSql, "internal_error">>
    ELSE IF ~decision.attempt THEN <<InitialSql, "no_correction_needed">>
    ELSE ApplyIntelligentFallbackStrategy(
           InitialSql, initial_validation_result,
           IF Truthy(corrected_sql) THEN corrected_sql ELSE InitialSql,
           corrected_validation_result)

\* C10: a failed log write never makes the request fail and never changes the
\* pair returned: the pair is the one the other steps determine, whether the
\* writes failed or not.
C10_LogFailureChangesNothing ==
    /\ logFailed => pc # "raised"
    /\ Returned => ret = OutcomeWithoutLog

\* A call all of whose log writes failed and that returned the corrected SQL.
C10_Witness ==
    /\ Returned
    /\ logFailed
    /\ logSink = <<>>
    /\ ret = <<corrected_sql, "corrected">>

(***************************************************************************)
(* Properties of the arbiter (checked under SpecArbiter)                   *)
(***************************************************************************)

ArbDone == pc = "arb_done"
CorrectedOK == Truthy(arbIn.corrected) /\ arbIn.cvr

\* C7: the arbiter follows the decision table: corrected when only the
\* corrected SQL is executable; corrected or initial by the length test when
\* both are; initial / "fallback_to_initial" when the initial SQL is executable
\* and the corrected one absent or not; initial / "both_not_executable" when
\* neither is; nothing else.
C7_ArbiterFollowsTable ==
    ArbDone =>
      /\ (~arbIn.ivr /\ CorrectedOK) => arbOut = <<arbIn.corrected, "corrected">>
      /\ (arbIn.ivr /\ CorrectedOK /\ 5 * arbIn.corrected.len < 6 * arbIn.initial.len)
            => arbOut = <<arbIn.corrected, "corrected">>
      /\ (arbIn.ivr /\ CorrectedOK /\ 5 * arbIn.corrected.len >= 6 * arbIn.initial.len)
            => arbOut = <<arbIn.initial, "fallback_corrected_too_complex">>
      /\ (arbIn.ivr /\ ~CorrectedOK) => arbOut = <<arbIn.initial, "fallback_to_initial">>
      /\ (~arbIn.ivr /\ ~CorrectedOK) => arbOut = <<arbIn.initial, "both_not_executable">>
      /\ arbOut[2] \in {"corrected", "fallback_corrected_too_complex",
                        "fallback_to_initial", "both_not_executable"}

\* The arbiter fell back because the corrected SQL, though validated, is empty.
C7_Witness ==
    /\ ArbDone
    /\ arbIn.ivr /\ arbIn.cvr
    /\ arbIn.corrected = EmptyStr
    /\ arbIn.initial.len = 20
    /\ arbOut = <<arbIn.initial, "fallback_to_initial">>

\* C8: both executable: corrected is chosen exactly when
\* 5 * len(corrected) < 6 * len(initial); at equality and above the initial
\* SQL is returned with "fallback_corrected_too_complex".
C8_LengthThreshold ==
    (ArbDone /\ arbIn.ivr /\ CorrectedOK /\ arbIn.initial # None) =>
      /\ (arbOut[1] = arbIn.corrected /\ arbOut[2] = "corrected")
            <=> (5 * arbIn.corrected.len < 6 * arbIn.initial.len)
      /\ (5 * arbIn.corrected.len >= 6 * arbIn.initial.len)
            => arbOut = <<arbIn.initial, "fallback_corrected_too_complex">>

\* Lengths 35 and 42: exactly 1.2 times, the initial SQL is kept.
C8_Witness ==
    /\ ArbDone
    /\ arbIn.ivr /\ arbIn.cvr
    /\ arbIn.initial.len = 35
    /\ arbIn.corrected.len = 42
    /\ arbOut = <<arbIn.initial, "fallback_corrected_too_complex">>

(***************************************************************************)
(* QwenAPIClient.get_correction on its own (src/self_correction/fixed.py,  *)
(* the second definition of the class, which is the one Python keeps).     *)
(* One behaviour of SpecClient is one call; the service is the             *)
(* environment and each attempt draws what the API call does.              *)
(***************************************************************************)

ProcIdle ==
    /\ request = [initial_sql |-> None, db_path |-> "", pattern |-> FALSE,
                  aggregate |-> FALSE, improve |-> FALSE]
    /\ correction_log = UnsetLog
    /\ initial_validation_result = NoResult
    /\ corrected_validation_result = NoResult
    /\ decision = NoDecision
    /\ llm_response_raw = NoResponse
    /\ corrected_sql = None
    /\ exc = "none"
    /\ raisedIn = NoFault
    /\ ret = NoRet
    /\ calls = NoCalls
    /\ logSink = <<>>
    /\ logFailed = FALSE

ArbIdle ==
    /\ arbIn = NoArb
    /\ arbOut = NoRet

\* What one call of _call_dashscope_api / _call_openai_compatible_api does:
\* it returns a text, or raises requests.exceptions.Timeout, another
\* requests.exceptions.RequestException (whose message may hold the words
\* "rate limit" and may hold "429"), LLMError, or an exception of another type
\* (a TypeError or AttributeError on a response of unexpected shape).
AttemptOutcome(kind, text, kw, code) ==
    [kind |-> kind, text |-> text, rate_kw |-> kw, http429 |-> code]
AttemptOutcomes ==
    {AttemptOutcome("text", t, FALSE, FALSE) : t \in 1..NumTexts}
    \cup {AttemptOutcome("timeout", 0, FALSE, FALSE)}
    \cup {AttemptOutcome("request_error", 0, kw, code) : kw \in BOOLEAN, code \in BOOLEAN}
    \cup {AttemptOutcome("llm_error", 0, FALSE, FALSE)}
    \cup {AttemptOutcome("other_error", 0, FALSE, FALSE)}

\* "rate limit" in str(e).lower() or "429" in str(e)
IsRateLimit(e) == e.rate_kw \/ e.http429

\* if attempt == self.max_retries
IsFinalAttemptSkewed(a, mr) == a + 1 = mr
IsFinalAttempt(a, mr) == a = mr

\* 2 ** attempt
RECURSIVE Pow(_, _)
Pow(b, n) == IF n <= 0 THEN 1 ELSE b * Pow(b, n - 1)
ExponentialWaitLinear(a) == a + 1
ExponentialWait(a) == Pow(BackoffBase, a)

\* 5 * (attempt + 1)
RateLimitWaitFlat(a) == RateLimitBackoff
RateLimitWait(a) == RateLimitBackoff * (a + 1)

ClientResult(kind, detail, text) == [kind |-> kind, detail |-> detail, text |-> text]

\* The except clauses of get_correction, in their order: what the attempt with
\* index a that ended with outcome o leaves behind.  wait = 0: no sleep.
AttemptAlwaysRetried(o, a, mr) ==
    [result |-> NoClientResult, wait |-> ExponentialWait(a)]
\* get_correction with an "except LLMError" clause that retries like the
\* timeout clause does.
AttemptResponseRetried(o, a, mr) ==
    CASE o.kind = "text" ->
           [result |-> ClientResult("text", "none", o.text), wait |-> 0]
      [] o.kind \in {"timeout", "llm_error"} ->
           IF IsFinalAttempt(a, mr)
           THEN [result |-> ClientResult("LLMError", "timed_out", 0), wait |-> 0]
           ELSE [result |-> NoClientResult, wait |-> ExponentialWait(a)]
      [] o.kind = "request_error" /\ IsRateLimit(o) ->
           IF IsFinalAttempt(a, mr)
           THEN [result |-> ClientResult("LLMError", "rate_limit_exceeded", 0), wait |-> 0]
           ELSE [result |-> NoClientResult, wait |-> RateLimitWait(a)]
      [] o.kind = "request_error" /\ ~IsRateLimit(o) ->
           IF IsFinalAttempt(a, mr)
           THEN [result |-> ClientResult("LLMError", "request_failed", 0), wait |-> 0]
           ELSE [result |-> NoClientResult, wait |-> ExponentialWait(a)]
      [] OTHER ->
           [result |-> ClientResult("error", "other_type", 0), wait |-> 0]
AttemptEffect(o, a, mr) ==
    CASE o.kind = "text" ->
           [result |-> ClientResult("text", "none", o.text), wait |-> 0]
      [] o.kind = "timeout" ->
           IF IsFinalAttempt(a, mr)
           THEN [result |-> ClientResult("LLMError", "timed_out", 0), wait |-> 0]
           ELSE [result |-> NoClientResult, wait |-> ExponentialWait(a)]
      [] o.kind = "request_error" /\ IsRateLimit(o) ->
           IF IsFinalAttempt(a, mr)
           THEN [result |-> ClientResult("LLMError", "rate_limit_exceeded", 0), wait |-> 0]
           ELSE [result |-> NoClientResult, wait |-> RateLimitWait(a)]
      [] o.kind = "request_error" /\ ~IsRateLimit(o) ->
           IF IsFinalAttempt(a, mr)
           THEN [result |-> ClientResult("LLMError", "request_failed", 0), wait |-> 0]
           ELSE [result |-> NoClientResult, wait |-> ExponentialWait(a)]
      [] o.kind = "llm_error" ->
           [result |-> ClientResult("LLMError", "response", 0), wait |-> 0]
      [] OTHER ->
           [result |-> ClientResult("error", "other_type", 0), wait |-> 0]

InitClient ==
    /\ pc = "gc_loop"
    /\ ProcIdle
    /\ ArbIdle
    /\ BatchIdle
    /\ ValidatorIdle
    /\ ParserIdle
    /\ CtorIdle
    /\ WireIdle
    /\ TriggerIdle
    /\ PromptIdle
    /\ HintIdle
    /\ ReuseIdle
    /\ StoreIdle
    /\ max_retries \in (-1)..MaxRetries
    /\ attempt = 0
    /\ transportLog = <<>>
    /\ sleeps = <<>>
    /\ clientResult = NoClientResult

\* one iteration of: for attempt in range(self.max_retries + 1)
GcAttempt ==
    /\ pc = "gc_loop"
    /\ attempt < max_retries + 1
    /\ \E o \in AttemptOutcomes :
         LET eff == AttemptEffect(o, attempt, max_retries) IN
           /\ transportLog' = Append(transportLog, o)
           /\ clientResult' = eff.result
           /\ sleeps' = IF eff.wait > 0 THEN Append(sleeps, eff.wait) ELSE sleeps
           /\ IF eff.result = NoClientResult
              THEN /\ attempt' = attempt + 1
                   /\ pc' = "gc_loop"
              ELSE /\ attempt' = attempt
                   /\ pc' = "gc_done"
    /\ UNCHANGED <<clientFrame, max_retries>>

\* range(self.max_retries + 1) is exhausted: the function body ends, and the
\* call returns None.
GcLoopExhausted ==
    /\ pc = "gc_loop"
    /\ ~(attempt < max_retries + 1)
    /\ clientResult' = ClientResult("none", "none", 0)
    /\ pc' = "gc_done"
    /\ UNCHANGED <<clientFrame, max_retries, attempt, transportLog, sleeps>>

NextClient ==
    \/ GcAttempt
    \/ GcLoopExhausted

SpecClient == InitClient /\ [][NextClient]_vars

(***************************************************************************)
(* Properties of get_correction (checked under SpecClient)                 *)
(***************************************************************************)

GcDone == pc = "gc_done"
Attempts == Len(transportLog)
EveryAttempt(kind) ==
    /\ Attempts > 0
    /\ \A i \in 1..Attempts : transportLog[i].kind = kind
EveryAttemptRateLimited ==
    /\ Attempts > 0
    /\ \A i \in 1..Attempts :
         transportLog[i].kind = "request_error" /\ IsRateLimit(transportLog[i])

\* C12: when every attempt of a call timed out, the call makes exactly
\* max_retries + 1 attempts (it never stops earlier and never goes on) and
\* then fails with LLMError carrying the timed-out classification.
C12_TimeoutsExhaustRetries ==
    EveryAttempt("timeout") =>
        /\ Attempts <= max_retries + 1
        /\ GcDone <=> Attempts = max_retries + 1
        /\ GcDone => clientResult = ClientResult("LLMError", "timed_out", 0)

C12_Witness ==
    /\ GcDone
    /\ EveryAttempt("timeout")
    /\ max_retries = MaxRetries
    /\ Attempts = MaxRetries + 1

\* C13: when every attempt of a call was rate-limited (by the words of the
\* error or by HTTP 429), the call slept 5 * (attempt + 1) seconds after each
\* attempt but the last, slept not at all after the last, and after
\* max_retries + 1 attempts failed with LLMError "rate limit exceeded".
C13_RateLimitWaits ==
    EveryAttemptRateLimited =>
        /\ Attempts <= max_retries + 1
        /\ GcDone <=> Attempts = max_retries + 1
        /\ GcDone => clientResult = ClientResult("LLMError", "rate_limit_exceeded", 0)
        /\ Len(sleeps) = (IF GcDone THEN Attempts - 1 ELSE Attempts)
        /\ \A i \in 1..Len(sleeps) : sleeps[i] = 5 * i

C13_Witness ==
    /\ GcDone
    /\ EveryAttemptRateLimited
    /\ max_retries = MaxRetries
    /\ Len(sleeps) = MaxRetries
    /\ \E i \in 1..Attempts : ~transportLog[i].rate_kw
    /\ \E i \in 1..Attempts : ~transportLog[i].http429

\* C14: a finished call either returned a text or failed with LLMError.
C14_TextOrLLMError ==
    GcDone => clientResult.kind \in {"text", "LLMError"}

\* C20: a call never makes more than max_retries + 1 attempts; no attempt
\* follows a successful one; and a call whose last attempt succeeded returns
\* the text of that attempt.
C20_StopsAtFirstSuccess ==
    /\ Attempts <= max_retries + 1
    /\ \A i \in 1..Attempts : transportLog[i].kind = "text" => i = Attempts
    /\ (Attempts > 0 /\ transportLog[Attempts].kind = "text") =>
           /\ GcDone
           /\ clientResult = ClientResult("text", "none", transportLog[Attempts].text)

C20_Witness ==
    /\ GcDone
    /\ Attempts = 4
    /\ Attempts < max_retries + 1 \/ max_retries = MaxRetries
    /\ transportLog[1].kind = "timeout"
    /\ transportLog[2].kind = "request_error" /\ IsRateLimit(transportLog[2])
    /\ transportLog[3].kind = "request_error" /\ ~IsRateLimit(transportLog[3])
    /\ transportLog[4].kind = "text"
    /\ clientResult.text = transportLog[4].text


RECURSIVE SumSeq(_)
SumSeq(q) == IF q = <<>> THEN 0 ELSE Head(q) + SumSeq(Tail(q))

\* the attempt with 0-based index i - 1 was a timeout or a transport error
\* that get_correction does not take for a rate-limit error
PlainFailure(i) ==
    \/ transportLog[i].kind = "timeout"
    \/ transportLog[i].kind = "request_error" /\ ~IsRateLimit(transportLog[i])

\* C21: the wait after a timeout or a plain transport error at the attempt
\* with 0-based index a is 2^a; every attempt but the one that ends the call
\* is followed by exactly one wait and the one that ends it by none; a call
\* whose attempts all time out waits 1, 2, ..., 2^(max_retries - 1), in total
\* 2^max_retries - 1.
C21_ExponentialWaits ==
    /\ Len(sleeps) = Attempts - (IF GcDone /\ Attempts > 0 THEN 1 ELSE 0)
    /\ \A i \in 1..Len(sleeps) : PlainFailure(i) => sleeps[i] = 2^(i - 1)
    /\ (GcDone /\ EveryAttempt("timeout")) =>
           /\ Len(sleeps) = max_retries
           /\ SumSeq(sleeps) = 2^max_retries - 1

C21_Witness ==
    /\ GcDone
    /\ max_retries = MaxRetries
    /\ Attempts = MaxRetries + 1
    /\ \A i \in 1..Attempts : PlainFailure(i)
    /\ \E i \in 1..Attempts : transportLog[i].kind = "request_error"
    /\ SumSeq(sleeps) = 2^MaxRetries - 1

(***************************************************************************)
(* The log files of a batch run: self_correction_main processes its items  *)
(* one after the other on one orchestrator, and each call of process calls *)
(* _save_log once or twice (once in the finally clause, and once more      *)
(* before the early returns of the skip and api_error paths).  The clock   *)
(* is the environment.                                                     *)
(***************************************************************************)

InitBatch ==
    /\ pc = "batch_next"
    /\ ProcIdle
    /\ ArbIdle
    /\ ClientIdle
    /\ BatchIdle
    /\ ValidatorIdle
    /\ ParserIdle
    /\ CtorIdle
    /\ WireIdle
    /\ TriggerIdle
    /\ PromptIdle
    /\ HintIdle
    /\ ReuseIdle
    /\ StoreIdle

\* time passes
Tick ==
    /\ pc \in {"batch_next", "batch_saving"}
    /\ clock < MaxClock
    /\ clock' = clock + 1
    /\ UNCHANGED <<pc, batchFrame, files, batchReq, logged>>

\* self_correction_main, lines 523-534: the next item of the loop enters process
BatchProcess ==
    /\ pc = "batch_next"
    /\ batchReq.no < MaxRequests
    /\ \E d \in BatchDbIds, n \in {1, 2} :
         batchReq' = [no |-> batchReq.no + 1, db_id |-> d, saves |-> n]
    /\ pc' = "batch_saving"
    /\ UNCHANGED <<batchFrame, clock, files, logged>>

\* _save_log, lines 469-480: open(log_filepath, 'w') truncates a file of that
\* name or creates it; a failed write is logged and swallowed.
SaveLog ==
    /\ pc = "batch_saving"
    /\ \E writeOK \in BOOLEAN :
         LET name == LogFileName(batchReq.db_id, clock) IN
           /\ files' = IF writeOK THEN [files EXCEPT ![name] = batchReq.no] ELSE files
           /\ logged' = IF writeOK THEN logged \cup {batchReq.no} ELSE logged
    /\ batchReq' = [batchReq EXCEPT !.saves = @ - 1]
    /\ pc' = IF batchReq.saves = 1 THEN "batch_next" ELSE "batch_saving"
    /\ UNCHANGED <<batchFrame, clock>>

NextBatch ==
    \/ Tick
    \/ BatchProcess
    \/ SaveLog

SpecBatch == InitBatch /\ [][NextBatch]_vars

\* C11: the audit record of a request is never overwritten by another
\* request: every request whose record was written still has a file holding
\* its record, so the records of distinct requests lie in distinct files.
C11_DistinctRequestsDistinctFiles ==
    \A k \in logged : \E n \in LogFileNames : files[n] = k

(***************************************************************************)
(* SQLValidator.execute_sql on its own (src/self_correction/               *)
(* sql_validator.py).  SpecValidator calls it up to MaxValidations times   *)
(* in a row, as validate_multiple and process do.  The SQLite engine is    *)
(* the environment: connecting, executing and fetching each draw what the  *)
(* engine does.                                                            *)
(***************************************************************************)

\* sql: blank or not; db_path: falsy, naming no file, naming a file; the
\* statement: nothing left after _clean_sql (";" or an empty code fence) or
\* not; SELECT-shaped or not; and the fetch_results argument.
VRequests == [sql_blank : BOOLEAN, db : {"falsy", "missing", "exists"},
              cleaned_empty : BOOLEAN, select : BOOLEAN, fetch_results : BOOLEAN]

\* str(e) of an sqlite3.OperationalError: the engine's wording for the cause,
\* with the offending token or identifier of the statement in it.
\*   syntax     near "<ident>": syntax error
\*   no_table   no such table: <ident>
\*   no_column  no such column: <ident>
\*   locked     database is locked
\*   other      any other wording (unable to open database file, ...)
Idents == {"name", "nearby", "timeout_ms"}
EngineMessage(cause, ident) == [cause |-> cause, ident |-> ident]
EngineMessages ==
    {EngineMessage(c, i) : c \in {"syntax", "no_table", "no_column"}, i \in Idents}
    \cup {EngineMessage("locked", "name"), EngineMessage("other", "name")}

\* the substrings among those execute_sql looks for that the message holds
WordingHolds(cause) ==
    CASE cause = "syntax" -> {"near", "syntax error"}
      [] cause = "no_table" -> {"no such table"}
      [] cause = "no_column" -> {"no such column"}
      [] cause = "locked" -> {"database is locked"}
      [] OTHER -> {}
IdentHolds(ident) ==
    CASE ident = "nearby" -> {"near"}
      [] ident = "timeout_ms" -> {"timeout"}
      [] OTHER -> {}
MessageHolds(msg) ==
    WordingHolds(msg.cause) \cup
    (IF msg.cause \in {"syntax", "no_table", "no_column"} THEN IdentHolds(msg.ident) ELSE {})

\* lines 90-105: the classification of an OperationalError, in the order of
\* the if / elif chain
ClassifyOperational(msg) ==
    LET in == MessageHolds(msg) IN
    IF "timeout" \in in \/ "database is locked" \in in
    THEN "Execution timeout or database locked"
    ELSE IF "syntax error" \in in \/ "near" \in in
    THEN "Syntax error"
    ELSE IF "no such table" \in in \/ "no such column" \in in
    THEN "Schema error"
    ELSE "Operational error"

VFault(stage, class, msg) == [stage |-> stage, class |-> class, msg |-> msg]

\* What may be raised inside the try block.  class is the most specific of
\* OperationalError, IntegrityError, Error (any other sqlite3.Error) and
\* Exception (anything else that is an Exception).
OpenFaults ==
    {VFault("connect", "OperationalError", m) :
        m \in {EngineMessage("locked", "name"), EngineMessage("other", "name")}}
    \cup {VFault("connect", c, NoEngineMessage) : c \in {"Error", "Exception"}}
ExecuteFaults ==
    {VFault("execute", "OperationalError", m) : m \in EngineMessages}
    \cup {VFault("execute", c, NoEngineMessage) : c \in {"IntegrityError", "Error", "Exception"}}

\* the except clauses of lines 90-120 cover every Exception
CaughtSqliteOnly(f) == f.class \in {"OperationalError", "IntegrityError", "Error"}
Caught(f) == f.class \in {"OperationalError", "IntegrityError", "Error", "Exception"}

\* the except clauses of lines 90-120, first match
HandleFault(f) ==
    CASE f.class = "OperationalError" -> ExecutionResult(FALSE, ClassifyOperational(f.msg), -1)
      [] f.class = "IntegrityError" -> ExecutionResult(FALSE, "Integrity constraint violation", -1)
      [] f.class = "Error" -> ExecutionResult(FALSE, "SQLite error", -1)
      [] OTHER -> ExecutionResult(FALSE, "Unexpected error", -1)

\* finally: if conn: conn.close()
ShouldCloseOnSuccess(c, faulted) == c = "open" /\ ~faulted
ShouldClose(c, faulted) == c = "open"

VPending(value) == [kind |-> "pending", value |-> value]

InitValidator ==
    /\ pc = "v_call"
    /\ ProcIdle
    /\ ArbIdle
    /\ ClientIdle
    /\ BatchIdle
    /\ ParserIdle
    /\ CtorIdle
    /\ WireIdle
    /\ TriggerIdle
    /\ PromptIdle
    /\ HintIdle
    /\ ReuseIdle
    /\ StoreIdle
    /\ vReq \in VRequests
    /\ conn = "none"
    /\ openConns = 0
    /\ vFault = NoVFault
    /\ vResult = NoVResult
    /\ vCalls = 1

\* lines 49-56: the two rejections before any connection, conn = None
VGuards ==
    /\ pc = "v_call"
    /\ IF vReq.sql_blank
       THEN /\ vResult' = [kind |-> "returned",
                           value |-> ExecutionResult(FALSE, "SQL query is empty", -1)]
            /\ pc' = "v_returned"
       ELSE IF vReq.db # "exists"
       THEN /\ vResult' = [kind |-> "returned",
                           value |-> ExecutionResult(FALSE, "Database file not found", -1)]
            /\ pc' = "v_returned"
       ELSE /\ vResult' = vResult
            /\ pc' = "v_connect"
    /\ UNCHANGED <<validatorFrame, vReq, conn, openConns, vFault, vCalls>>

\* lines 60-67: connect, PRAGMA, cursor, _clean_sql and the rejection of a
\* statement that is empty after cleaning.  A fault of connect leaves conn None;
\* a fault of the PRAGMA leaves the connection open.
VOpen ==
    /\ pc = "v_connect"
    /\ \/ \E f \in OpenFaults :
            /\ vFault' = f
            /\ pc' = "v_except"
            /\ \/ UNCHANGED <<conn, openConns>>
               \/ /\ conn' = "open"
                  /\ openConns' = openConns + 1
            /\ UNCHANGED vResult
       \/ /\ conn' = "open"
          /\ openConns' = openConns + 1
          /\ UNCHANGED vFault
          /\ IF vReq.cleaned_empty
             THEN /\ vResult' = VPending(ExecutionResult(FALSE, "SQL query is empty after cleaning", -1))
                  /\ pc' = "v_finally"
             ELSE /\ vResult' = vResult
                  /\ pc' = "v_execute"
    /\ UNCHANGED <<validatorFrame, vReq, vCalls>>

\* lines 70-88: cursor.execute, and for a SELECT the best-effort fetchall
VExecute ==
    /\ pc = "v_execute"
    /\ \/ \E f \in ExecuteFaults :
            /\ vFault' = f
            /\ pc' = "v_except"
            /\ UNCHANGED vResult
       \/ /\ ~(vReq.fetch_results /\ vReq.select)
          /\ vResult' = VPending(ExecutionResult(TRUE, "None", -1))
          /\ pc' = "v_finally"
          /\ UNCHANGED vFault
       \/ /\ vReq.fetch_results /\ vReq.select
          /\ \/ \E n \in {0, 1} :
                  /\ vResult' = VPending(ExecutionResult(TRUE, "None", n))
                  /\ pc' = "v_finally"
                  /\ UNCHANGED vFault
             \/ /\ vFault' = VFault("fetch", "Error", NoEngineMessage)
                /\ vResult' = VPending(ExecutionResult(TRUE, "None", -1))
                /\ pc' = "v_finally"
             \/ /\ vFault' = VFault("fetch", "Exception", NoEngineMessage)
                /\ pc' = "v_except"
                /\ UNCHANGED vResult
    /\ UNCHANGED <<validatorFrame, vReq, conn, openConns, vCalls>>

\* lines 90-120: the except clauses
VExcept ==
    /\ pc = "v_except"
    /\ vResult' = IF Caught(vFault)
                  THEN VPending(HandleFault(vFault))
                  ELSE [kind |-> "propagating", value |-> NoResult]
    /\ pc' = "v_finally"
    /\ UNCHANGED <<validatorFrame, vReq, conn, openConns, vFault, vCalls>>

\* lines 122-127: the finally clause, then the pending return (or the
\* exception that no clause caught) reaches the caller
VFinally ==
    /\ pc = "v_finally"
    /\ IF ShouldClose(conn, vFault.stage \in {"connect", "execute"} \/ vResult.kind = "propagating")
       THEN /\ conn' = "closed"
            /\ openConns' = openConns - 1
       ELSE UNCHANGED <<conn, openConns>>
    /\ IF vResult.kind = "propagating"
       THEN /\ vResult' = [kind |-> "raised", value |-> NoResult]
            /\ pc' = "v_raised"
       ELSE /\ vResult' = [kind |-> "returned", value |-> vResult.value]
            /\ pc' = "v_returned"
    /\ UNCHANGED <<validatorFrame, vReq, vFault, vCalls>>

\* the caller validates the next statement
VNextCall ==
    /\ pc = "v_returned"
    /\ vCalls < MaxValidations
    /\ vReq' \in VRequests
    /\ conn' = "none"
    /\ vFault' = NoVFault
    /\ vResult' = NoVResult
    /\ vCalls' = vCalls + 1
    /\ pc' = "v_call"
    /\ UNCHANGED <<validatorFrame, openConns>>

NextValidator ==
    \/ VGuards
    \/ VOpen
    \/ VExecute
    \/ VExcept
    \/ VFinally
    \/ VNextCall

SpecValidator == InitValidator /\ [][NextValidator]_vars

(***************************************************************************)
(* Properties of execute_sql (checked under SpecValidator)                 *)
(***************************************************************************)

FailureClasses == {"Execution timeout or database locked", "Syntax error", "Schema error",
                   "Operational error", "Integrity constraint violation",
                   "SQLite error", "Unexpected error"}
\* a fault that ended the try block (a fetch fault of the engine does not)
VFailed == vFault.stage \in {"connect", "execute"} \/ vFault = VFault("fetch", "Exception", NoEngineMessage)

\* C15: execute_sql never raises; every call ends by returning an
\* ExecutionResult, and a call in which connecting, executing or fetching
\* failed returns one that is not executable and carries one of the failure
\* classes.
C15_NeverRaises ==
    /\ pc # "v_raised"
    /\ vResult.kind # "raised"
    /\ (pc = "v_returned" /\ VFailed) =>
           /\ ~vResult.value.is_executable
           /\ vResult.value.error_message \in FailureClasses

C15_Witness ==
    /\ pc = "v_returned"
    /\ vFault = VFault("fetch", "Exception", NoEngineMessage)
    /\ vResult.value = ExecutionResult(FALSE, "Unexpected error", -1)

\* C16: whenever execute_sql is not running (before a call and after its
\* return) no connection opened by it is open.
C16_ConnectionsClosed ==
    (pc \in {"v_call", "v_returned", "v_raised"}) => (openConns = 0 /\ conn # "open")

C16_Witness ==
    /\ pc = "v_returned"
    /\ vCalls = MaxValidations
    /\ conn = "closed"
    /\ vFault.stage = "execute"
    /\ vFault.class = "Exception"

\* C17: a statement that fails on a missing table or column is classified
\* "Schema error" and a malformed one "Syntax error", whatever identifier the
\* engine's message quotes.
C17_ClassifiedByCause ==
    (pc = "v_returned" /\ vFault.stage = "execute" /\ vFault.class = "OperationalError") =>
        /\ vFault.msg.cause \in {"no_table", "no_column"} =>
               vResult.value = ExecutionResult(FALSE, "Schema error", -1)
        /\ vFault.msg.cause = "syntax" =>
               vResult.value = ExecutionResult(FALSE, "Syntax error", -1)

(***************************************************************************)
(* _parse_llm_response and _extract_sql_from_text on character strings     *)
(* (self_correction_module.py 385-457).  A string is the sequence of its   *)
(* characters.  SpecParser draws the completion text from the              *)
(* concatenations of at most MaxFragments fragments and applies the parser.*)
(***************************************************************************)

Min(S) == CHOOSE x \in S : \A y \in S : x <= y
Max(S) == CHOOSE x \in S : \A y \in S : x >= y

\* str.upper() on the letters that occur in the fragments
LowerLetters == <<"a", "c", "e", "f", "l", "m", "o", "r", "s", "t">>
UpperLetters == <<"A", "C", "E", "F", "L", "M", "O", "R", "S", "T">>
UpperChar(c) ==
    IF \E i \in 1..Len(LowerLetters) : LowerLetters[i] = c
    THEN UpperLetters[CHOOSE i \in 1..Len(LowerLetters) : LowerLetters[i] = c]
    ELSE c
Upper(s) == [i \in 1..Len(s) |-> UpperChar(s[i])]

\* str.strip(): whitespace off both ends
IsSpace(c) == c \in {" ", "\n"}
Strip(s) ==
    LET keep == {i \in 1..Len(s) : ~IsSpace(s[i])} IN
    IF keep = {} THEN <<>> ELSE SubSeq(s, Min(keep), Max(keep))

\* str.rstrip(';')
RStripSemicolon(s) ==
    LET keep == {i \in 1..Len(s) : s[i] # ";"} IN
    IF keep = {} THEN <<>> ELSE SubSeq(s, 1, Max(keep))

\* str.find(pat) + 1: the position of the first occurrence, 0 if there is none
Find(s, pat) ==
    LET at == {i \in 1..(Len(s) - Len(pat) + 1) : SubSeq(s, i, i + Len(pat) - 1) = pat} IN
    IF at = {} THEN 0 ELSE Min(at)
Contains(s, pat) == Find(s, pat) # 0
StartsWith(s, pat) == Len(s) >= Len(pat) /\ SubSeq(s, 1, Len(pat)) = pat
EndsWith(s, pat) == Len(s) >= Len(pat) /\ SubSeq(s, Len(s) - Len(pat) + 1, Len(s)) = pat

\* s.split(pat, 1)[1] and s.split(pat)[0], for a pat that occurs in s
AfterFirst(s, pat) == SubSeq(s, Find(s, pat) + Len(pat), Len(s))
BeforeFirst(s, pat) == SubSeq(s, 1, Find(s, pat) - 1)

\* s.split('\n')
RECURSIVE SplitLines(_)
SplitLines(s) ==
    IF Contains(s, <<"\n">>)
    THEN <<BeforeFirst(s, <<"\n">>)>> \o SplitLines(AfterFirst(s, <<"\n">>))
    ELSE <<s>>

Markers == <<<<"F", "i", "x", "e", "d", " ", "S", "Q", "L", ":">>, <<"C", "o", "r", "r", "e", "c", "t", "e", "d", " ", "S", "Q", "L", ":">>, <<"C", "o", "r", "r", "e", "c", "t", " ", "S", "Q", "L", ":">>, <<"S", "Q", "L", ":">>, <<"F", "i", "x", "e", "d", ":">>>>
ParseKeywords == <<<<"S", "E", "L", "E", "C", "T">>, <<"I", "N", "S", "E", "R", "T">>, <<"U", "P", "D", "A", "T", "E">>, <<"D", "E", "L", "E", "T", "E">>, <<"W", "I", "T", "H">>>>
ExtractKeywords == <<<<"S", "E", "L", "E", "C", "T">>, <<"I", "N", "S", "E", "R", "T">>, <<"U", "P", "D", "A", "T", "E">>, <<"D", "E", "L", "E", "T", "E">>>>
SqlPatterns == <<<<"F", "R", "O", "M">>, <<"W", "H", "E", "R", "E">>, <<"J", "O", "I", "N">>>>
\* SelfCorrectionConfig.llm_stop_sequences (config.py, the default)
StopSequences == <<<<"#", ";", "\n", "\n">>, <<"\n", "\n", "-", "-", "-">>, <<"-", "-", "-", "\n">>>>
\* "BACKTICK" stands for the one character U+0060
Fence == <<"BACKTICK", "BACKTICK", "BACKTICK">>
FenceSql == <<"BACKTICK", "BACKTICK", "BACKTICK", "s", "q", "l">>
LinePrefixesSkipped == <<<<"#">>, <<"-", "-">>, <<"N", "o", "t", "e", ":">>>>

ContainsAny(s, pats) == \E i \in 1..Len(pats) : Contains(s, pats[i])

\* lines 434-440: the code fence markers
StripFences(text) ==
    LET t0 == Strip(text)
        t1 == IF StartsWith(t0, FenceSql) THEN Strip(SubSeq(t0, Len(FenceSql) + 1, Len(t0)))
              ELSE IF StartsWith(t0, Fence) THEN Strip(SubSeq(t0, Len(Fence) + 1, Len(t0)))
              ELSE t0
    IN IF EndsWith(t1, Fence) THEN Strip(SubSeq(t1, 1, Len(t1) - Len(Fence))) ELSE t1

\* lines 443-445: cut at each stop sequence in turn
RECURSIVE CutAtStops(_, _)
CutAtStops(text, k) ==
    IF k > Len(StopSequences) THEN text
    ELSE CutAtStops(IF Contains(text, StopSequences[k])
                    THEN Strip(BeforeFirst(text, StopSequences[k]))
                    ELSE text, k + 1)

\* line 453: the line without its trailing semicolons, then stripped
CandidateOfLine(line) == Strip(RStripSemicolon(line))

\* line 454
LongEnough(c) == Len(c) > MinCandidateLen
HasExtractKeyword(c) == ContainsAny(Upper(c), ExtractKeywords)

\* lines 448-455: the first line that qualifies
RECURSIVE FirstCandidate(_, _)
FirstCandidate(lines, k) ==
    IF k > Len(lines) THEN NoText
    ELSE LET line == Strip(lines[k])
             skipped == \/ line = <<>>
                        \/ \E i \in 1..Len(LinePrefixesSkipped) :
                               StartsWith(line, LinePrefixesSkipped[i])
             cand == CandidateOfLine(line)
         IN IF ~skipped /\ LongEnough(cand) /\ HasExtractKeyword(cand)
            THEN cand
            ELSE FirstCandidate(lines, k + 1)

\* _extract_sql_from_text, lines 428-457
ExtractSqlFromText(text) ==
    IF text = <<>> THEN NoText
    ELSE FirstCandidate(SplitLines(CutAtStops(StripFences(text), 1)), 1)

\* lines 402-407: the markers in list order
RECURSIVE ByMarker(_, _)
ByMarker(cleaned, k) ==
    IF k > Len(Markers) THEN NoText
    ELSE LET c == IF Contains(cleaned, Markers[k])
                  THEN ExtractSqlFromText(Strip(AfterFirst(cleaned, Markers[k])))
                  ELSE NoText
         IN IF c # NoText THEN c ELSE ByMarker(cleaned, k + 1)

\* lines 410-418: the keywords in list order, from the first occurrence on
RECURSIVE ByKeyword(_, _)
ByKeyword(cleaned, k) ==
    IF k > Len(ParseKeywords) THEN NoText
    ELSE LET at == Find(Upper(cleaned), ParseKeywords[k])
             c == IF at # 0 THEN ExtractSqlFromText(SubSeq(cleaned, at, Len(cleaned)))
                  ELSE NoText
         IN IF c # NoText THEN c ELSE ByKeyword(cleaned, k + 1)

\* lines 421-424
ByPattern(cleaned) ==
    IF ContainsAny(Upper(cleaned), SqlPatterns) THEN ExtractSqlFromText(cleaned) ELSE NoText

\* _parse_llm_response, lines 385-426
ParseText(text) ==
    IF text = <<>> THEN NoText
    ELSE LET cleaned == Strip(text)
             m1 == ByMarker(cleaned, 1)
             m2 == ByKeyword(cleaned, 1)
         IN IF m1 # NoText THEN m1
            ELSE IF m2 # NoText THEN m2
            ELSE ByPattern(cleaned)

\* the fragments completion texts are made of
Fragments == {<<"S", "E", "L", "E", "C", "T", " ", "a", " ", "F", "R", "O", "M", " ", "t">>,
              <<"s", "e", "l", "e", "c", "t", " ", "1">>,
              <<"W", "I", "T", "H">>,
              <<"F", "R", "O", "M">>,
              <<"S", "Q", "L", ":">>,
              <<";">>,
              <<" ">>,
              <<"\n">>}

RECURSIVE Concat(_)
Concat(fs) == IF fs = <<>> THEN <<>> ELSE Head(fs) \o Concat(Tail(fs))
ResponseTexts ==
    {Concat(fs) : fs \in UNION {[1..n -> Fragments] : n \in 0..MaxFragments}}

InitParser ==
    /\ pc = "parse_ready"
    /\ ProcIdle
    /\ ArbIdle
    /\ ClientIdle
    /\ BatchIdle
    /\ ValidatorIdle
    /\ CtorIdle
    /\ WireIdle
    /\ TriggerIdle
    /\ PromptIdle
    /\ HintIdle
    /\ ReuseIdle
    /\ StoreIdle
    /\ response_text \in ResponseTexts
    /\ parsed = NoText

ParseApply ==
    /\ pc = "parse_ready"
    /\ parsed' = ParseText(response_text)
    /\ pc' = "parse_done"
    /\ UNCHANGED <<parserFrame, response_text>>

NextParser == ParseApply

SpecParser == InitParser /\ [][NextParser]_vars

(***************************************************************************)
(* Properties of the parser (checked under SpecParser)                     *)
(***************************************************************************)

ParseDone == pc = "parse_done"
HasStatementKeyword(s) == ContainsAny(Upper(s), ParseKeywords)

\* C18: a text without a statement keyword parses to none; and a returned
\* candidate is a single line, longer than 10 characters, holds a statement
\* keyword and does not end with the statement terminator.
C18_CandidateShape ==
    ParseDone =>
        /\ ~HasStatementKeyword(response_text) => parsed = NoText
        /\ parsed # NoText =>
               /\ ~Contains(parsed, <<"\n">>)
               /\ Len(parsed) > 10
               /\ HasStatementKeyword(parsed)
               /\ ~EndsWith(parsed, <<";">>)

(***************************************************************************)
(* SelfCorrectionModule.__init__ (self_correction_module.py 23-53) with    *)
(* the constructors it calls.  SpecCtor hands it a configuration object    *)
(* in any state its attributes can be put in; the log directory and the    *)
(* LLM service are the environment.                                        *)
(***************************************************************************)

Configs == [api_key : BOOLEAN, endpoint : BOOLEAN, temperature_ok : BOOLEAN,
            max_tokens_ok : BOOLEAN, templates : SUBSET RequiredTemplates,
            few_shot : BOOLEAN]

\* SelfCorrectionConfig.validate_config, config.py 166-189
ValidateConfigCredentialsOnly(cfg) == cfg.api_key /\ cfg.endpoint
ValidateConfig(cfg) ==
    /\ cfg.api_key
    /\ cfg.endpoint
    /\ cfg.temperature_ok
    /\ cfg.max_tokens_ok
    /\ cfg.templates # {}
    /\ RequiredTemplates \subseteq cfg.templates

\* PromptGenerator.__init__, prompt_generator.py 11-27: an empty dict is
\* replaced by the default templates, which hold both keys
PromptGeneratorAccepts(templates) ==
    LET used == IF templates = {} THEN RequiredTemplates ELSE templates IN
    "generic" \in used /\ "guided" \in used

\* QwenAPIClient.__init__, fixed.py 307-310
ClientAccepts(cfg) == cfg.api_key /\ cfg.endpoint

InitCtor ==
    /\ pc = "ctor_validate"
    /\ ProcIdle
    /\ ArbIdle
    /\ ClientIdle
    /\ BatchIdle
    /\ ValidatorIdle
    /\ ParserIdle
    /\ WireIdle
    /\ TriggerIdle
    /\ PromptIdle
    /\ HintIdle
    /\ ReuseIdle
    /\ StoreIdle
    /\ config \in Configs
    /\ built = {}
    /\ networkCalls = 0
    /\ served = 0
    /\ connTest = NoConnTest

\* lines 30-34
CtorValidate ==
    /\ pc = "ctor_validate"
    /\ pc' = IF ValidateConfig(config) THEN "ctor_generator" ELSE "ctor_raised"
    /\ UNCHANGED <<ctorFrame, ctorVars>>

\* line 36
CtorGenerator ==
    /\ pc = "ctor_generator"
    /\ IF PromptGeneratorAccepts(config.templates)
       THEN /\ built' = built \cup {"prompt_generator"}
            /\ pc' = "ctor_client"
       ELSE /\ built' = built
            /\ pc' = "ctor_raised"
    /\ UNCHANGED <<ctorFrame, config, networkCalls, served, connTest>>

\* lines 37-43: the client's constructor sends nothing
CtorClient ==
    /\ pc = "ctor_client"
    /\ IF ClientAccepts(config)
       THEN /\ built' = built \cup {"llm_client"}
            /\ pc' = "ctor_logdir"
       ELSE /\ built' = built
            /\ pc' = "ctor_raised"
    /\ UNCHANGED <<ctorFrame, config, networkCalls, served, connTest>>

\* lines 44-49: the validator, and os.makedirs, which may raise OSError
CtorLogDir ==
    /\ pc = "ctor_logdir"
    /\ \E ok \in BOOLEAN :
         IF ok
         THEN /\ built' = built \cup {"sql_validator", "log_dir"}
              /\ pc' = "ctor_test"
         ELSE /\ built' = built \cup {"sql_validator"}
              /\ pc' = "ctor_raised"
    /\ UNCHANGED <<ctorFrame, config, networkCalls, served, connTest>>

CompletionOutcomes ==
    {Completion("text", t) : t \in {"empty", "indicator", "other"}}
    \cup {Completion(k, "none") : k \in {"none", "LLMError", "exception"}}

\* fixed.py 492-505: success when the lowered text holds "connection",
\* "successful" or "test"; None has no lower() and ends in the except clause,
\* as every exception of the call does
TestConnectionAnyReturn(o) ==
    IF o.kind \in {"text", "none"} THEN Verdict(FALSE, TRUE) ELSE Verdict(FALSE, FALSE)
TestConnection(o) ==
    IF o.kind = "text" THEN Verdict(FALSE, o.text = "indicator") ELSE Verdict(FALSE, FALSE)

\* lines 54-61: an exception of test_connection counts as failure
TestApiConnection(o) ==
    LET t == TestConnection(o) IN
      IF t.raised THEN Verdict(FALSE, FALSE) ELSE t

\* lines 51-53 and 55-61: the connection test is the first request to the
\* service; its failure, or an exception in it, is only logged
CtorTestConnection ==
    /\ pc = "ctor_test"
    /\ networkCalls' = networkCalls + 1
    /\ \E o \in CompletionOutcomes :
         LET v == TestApiConnection(o) IN
           /\ connTest' = [call |-> o, client |-> TestConnection(o), module |-> v]
           /\ pc' = IF v.raised THEN "ctor_raised" ELSE "constructed"
    /\ UNCHANGED <<ctorFrame, config, built, served>>

\* process needs the constructed object
CtorServe ==
    /\ pc = "constructed"
    /\ served < MaxServed
    /\ served' = served + 1
    /\ \E n \in {0, 1} : networkCalls' = networkCalls + n
    /\ UNCHANGED <<pc, ctorFrame, config, built, connTest>>

NextCtor ==
    \/ CtorValidate
    \/ CtorGenerator
    \/ CtorClient
    \/ CtorLogDir
    \/ CtorTestConnection
    \/ CtorServe

SpecCtor == InitCtor /\ [][NextCtor]_vars

(***************************************************************************)
(* Properties of construction (checked under SpecCtor)                     *)
(***************************************************************************)

LacksRequired(cfg) ==
    \/ ~cfg.api_key
    \/ ~cfg.endpoint
    \/ ~("generic" \in cfg.templates)
    \/ ~("guided" \in cfg.templates)

\* C19: with a configuration that lacks the API key, the endpoint or the
\* generic or guided template, construction ends in its first step by
\* raising: no collaborator is created, no request is sent to the service, the
\* orchestrator is never constructed and no request is served.
C19_ConstructionFailsEarly ==
    LacksRequired(config) =>
        /\ pc \in {"ctor_validate", "ctor_raised"}
        /\ built = {}
        /\ networkCalls = 0
        /\ served = 0

C19_Witness ==
    /\ pc = "ctor_raised"
    /\ config.api_key
    /\ config.endpoint
    /\ config.temperature_ok
    /\ config.max_tokens_ok
    /\ config.templates = {"generic"}

(***************************************************************************)
(* get_correction together with the two dialect calls it dispatches to     *)
(* (fixed.py 343-490, the class definition Python keeps).  SpecWire is one *)
(* call of get_correction in which every attempt is carried out request by *)
(* request; the service is the environment and draws the fate of each      *)
(* request and the body of each response.                                   *)
(***************************************************************************)

ApiTypes == {"dashscope", "openai_compatible"}

\* what requests.post and raise_for_status do with one request
HttpOutcomes == {"ok", "422", "429", "500", "timeout", "connection_error"}

Event(ev, a, nth, stop, status, secs) ==
    [ev |-> ev, attempt |-> a, nth |-> nth, stop |-> stop, status |-> status, secs |-> secs]
\* the nth request of attempt a, carrying stop stop sequences (0: no stop field)
PostEvent(a, nth, stop, status) == Event("post", a, nth, stop, status, 0)
SleepEvent(a, secs) == Event("sleep", a, 0, 0, "none", secs)

\* lines 449-452: the stop field of the first request of the chat dialect;
\* the task dialect sends none (lines 388-402)
FirstStop(api, n) ==
    IF api = "openai_compatible" /\ n > 0
    THEN (IF n < MaxStopsSent THEN n ELSE MaxStopsSent)
    ELSE 0

\* line 463: payload.pop("stop", None)
RepostStop(api, n) == 0

\* line 460: if response.status_code == 422
RepostsOnClientError(status) == status \in {"422", "429"}
RepostsOn(status) == status = "422"

\* the exception a failed request leaves get_correction with: Timeout, an
\* HTTPError whose text starts with the status code, or a ConnectionError
FailureOutcome(status) ==
    CASE status = "timeout" -> AttemptOutcome("timeout", 0, FALSE, FALSE)
      [] status = "429" -> AttemptOutcome("request_error", 0, FALSE, TRUE)
      [] OTHER -> AttemptOutcome("request_error", 0, FALSE, FALSE)

\* the text a content value is returned as, after strip(): 0 is the empty string
TextId(c) == IF c = "text" THEN 1 ELSE 0

ChatPayloads ==
    {Payload("absent", e, "absent", "absent", c, FALSE, "absent") :
        e \in BOOLEAN, c \in {"absent", "empty"}}
    \cup {Payload("absent", FALSE, "absent", "absent", "some", FALSE, "absent")}
    \cup {Payload("absent", FALSE, "absent", "absent", "some", TRUE, c) :
            c \in {"absent", "null", "empty", "blank", "text"}}

TaskOutputs ==
    {Payload("absent", FALSE, "absent", "absent", "absent", FALSE, "absent")}
    \cup {Payload("absent", FALSE, "object", t, "absent", FALSE, "absent") :
            t \in {"absent", "empty", "text"}}
    \cup {Payload("absent", FALSE, "object", "absent", "empty", FALSE, "absent"),
          Payload("absent", FALSE, "object", "absent", "some", FALSE, "absent")}
    \cup {Payload("absent", FALSE, "object", "absent", "some", TRUE, c) :
            c \in {"absent", "null", "empty", "blank", "text"}}
TaskPayloads ==
    {[o EXCEPT !.status_code = sc, !.error = e] :
        o \in TaskOutputs, sc \in {"absent", "200", "other"}, e \in BOOLEAN}

\* _call_openai_compatible_api, lines 472-490
HandleChatResponse(p) ==
    IF p.choices = "some"
    THEN IF p.message /\ p.content # "absent"
         THEN IF p.content = "null"
              THEN AttemptOutcome("other_error", 0, FALSE, FALSE)
              ELSE AttemptOutcome("text", TextId(p.content), FALSE, FALSE)
         ELSE AttemptOutcome("llm_error", 0, FALSE, FALSE)
    ELSE AttemptOutcome("llm_error", 0, FALSE, FALSE)

\* _call_dashscope_api, lines 410-432
HandleTaskResponse(p) ==
    IF p.status_code = "200"
    THEN IF p.output = "object" /\ p.text # "absent"
         THEN AttemptOutcome("text", TextId(p.text), FALSE, FALSE)
         ELSE IF p.output = "object" /\ p.choices = "some"
         THEN IF p.message /\ p.content = "null"
              THEN AttemptOutcome("other_error", 0, FALSE, FALSE)
              ELSE AttemptOutcome("text", TextId(p.content), FALSE, FALSE)
         ELSE AttemptOutcome("llm_error", 0, FALSE, FALSE)
    ELSE AttemptOutcome("llm_error", 0, FALSE, FALSE)

InitWire ==
    /\ pc = "w_post"
    /\ ProcIdle
    /\ ArbIdle
    /\ BatchIdle
    /\ ValidatorIdle
    /\ ParserIdle
    /\ CtorIdle
    /\ TriggerIdle
    /\ PromptIdle
    /\ HintIdle
    /\ ReuseIdle
    /\ StoreIdle
    /\ max_retries \in 0..MaxWireRetries
    /\ attempt = 0
    /\ transportLog = <<>>
    /\ sleeps = <<>>
    /\ clientResult = NoClientResult
    /\ api_type \in ApiTypes
    /\ stop_sequences \in {0, 1, MaxStops}
    /\ wire = <<>>
    /\ payload = NoPayload

\* the except clauses of get_correction applied to what the dialect call of
\* this attempt returned or raised; w is the wire with this attempt's requests
EndAttempt(o, w) ==
    LET eff == AttemptEffect(o, attempt, max_retries) IN
      /\ transportLog' = Append(transportLog, o)
      /\ clientResult' = eff.result
      /\ sleeps' = IF eff.wait > 0 THEN Append(sleeps, eff.wait) ELSE sleeps
      /\ wire' = IF eff.wait > 0 THEN Append(w, SleepEvent(attempt, eff.wait)) ELSE w
      /\ IF eff.result = NoClientResult
         THEN /\ attempt' = attempt + 1
              /\ pc' = "w_post"
         ELSE /\ attempt' = attempt
              /\ pc' = "w_done"

\* the first request of an attempt: lines 406-407 and 456-458
WPost ==
    /\ pc = "w_post"
    /\ attempt < max_retries + 1
    /\ \E h \in HttpOutcomes :
         LET w == Append(wire, PostEvent(attempt, 1, FirstStop(api_type, stop_sequences), h)) IN
           IF h = "ok"
           THEN /\ wire' = w
                /\ pc' = "w_response"
                /\ UNCHANGED <<attempt, transportLog, sleeps, clientResult>>
           ELSE IF api_type = "openai_compatible" /\ RepostsOn(h)
           THEN /\ wire' = w
                /\ pc' = "w_repost"
                /\ UNCHANGED <<attempt, transportLog, sleeps, clientResult>>
           ELSE EndAttempt(FailureOutcome(h), w)
    /\ UNCHANGED <<wireFrame, max_retries, api_type, stop_sequences, payload>>

\* lines 459-465: the request repeated without the stop field
WRepost ==
    /\ pc = "w_repost"
    /\ \E h \in HttpOutcomes :
         LET w == Append(wire, PostEvent(attempt, 2, RepostStop(api_type, stop_sequences), h)) IN
           IF h = "ok"
           THEN /\ wire' = w
                /\ pc' = "w_response"
                /\ UNCHANGED <<attempt, transportLog, sleeps, clientResult>>
           ELSE EndAttempt(FailureOutcome(h), w)
    /\ UNCHANGED <<wireFrame, max_retries, api_type, stop_sequences, payload>>

\* lines 409-432 and 469-490: the body of the response
WResponse ==
    /\ pc = "w_response"
    /\ \E p \in (IF api_type = "dashscope" THEN TaskPayloads ELSE ChatPayloads) :
         /\ payload' = p
         /\ EndAttempt(IF api_type = "dashscope" THEN HandleTaskResponse(p)
                       ELSE HandleChatResponse(p), wire)
    /\ UNCHANGED <<wireFrame, max_retries, api_type, stop_sequences>>

NextWire ==
    \/ WPost
    \/ WRepost
    \/ WResponse

SpecWire == InitWire /\ [][NextWire]_vars

(***************************************************************************)
(* Properties of the dialect calls (checked under SpecWire)                *)
(***************************************************************************)

WDone == pc = "w_done"
IsPost(i, nth) == wire[i].ev = "post" /\ wire[i].nth = nth
\* the response whose body is in payload ended the call
Answered == WDone /\ payload # NoPayload

\* C22: in the chat dialect a first request answered with HTTP 422 is
\* followed at once (no sleep between) by a second request of the same attempt
\* without stop field; a second request is sent only then, and at most one;
\* the attempt counts as failed exactly when the second request failed too.
C22_RepostOnceWithoutStop ==
    /\ \A i \in 1..Len(wire) :
         (IsPost(i, 1) /\ wire[i].status = "422" /\ api_type = "openai_compatible") =>
             IF i = Len(wire) THEN pc = "w_repost"
             ELSE /\ IsPost(i + 1, 2)
                  /\ wire[i + 1].attempt = wire[i].attempt
                  /\ wire[i + 1].stop = 0
    /\ \A i \in 1..Len(wire) :
         IsPost(i, 2) =>
             /\ api_type = "openai_compatible"
             /\ i > 1 /\ IsPost(i - 1, 1) /\ wire[i - 1].status = "422"
             /\ i < Len(wire) => wire[i + 1].ev = "sleep"
             /\ Len(transportLog) > wire[i].attempt =>
                    LET o == transportLog[wire[i].attempt + 1] IN
                    IF wire[i].status = "ok"
                    THEN o.kind \notin {"timeout", "request_error"}
                    ELSE o = FailureOutcome(wire[i].status)

C22_Witness ==
    /\ WDone
    /\ api_type = "openai_compatible"
    /\ stop_sequences = MaxStops
    /\ Len(wire) = 5
    /\ IsPost(1, 1) /\ wire[1].status = "422" /\ wire[1].stop = 2
    /\ IsPost(2, 2) /\ wire[2].status = "500"
    /\ wire[3].ev = "sleep"
    /\ IsPost(4, 1) /\ wire[4].status = "422"
    /\ IsPost(5, 2) /\ wire[5].status = "ok" /\ wire[5].stop = 0
    /\ clientResult = ClientResult("text", "none", 1)

\* C23: a chat response whose first choice has no message content, or an
\* empty one, makes the call fail with LLMError, and never returns the empty
\* text.
C23_EmptyContentIsLLMError ==
    (Answered /\ api_type = "openai_compatible" /\ payload.choices = "some"
        /\ (~payload.message \/ payload.content \in {"absent", "null", "empty"})) =>
            clientResult.kind = "LLMError"

\* C24: a task response with an error field fails with LLMError, whatever
\* else the body holds.
C24_ErrorFieldIsLLMError ==
    (Answered /\ api_type = "dashscope" /\ payload.error) =>
        clientResult.kind = "LLMError"

\* C25: a task response with an output object and no error field yields a
\* text: the output's text, else the first choice's message content, else the
\* stringified body; with or without a status field.
C25_OutputObjectYieldsText ==
    (Answered /\ api_type = "dashscope" /\ payload.output = "object" /\ ~payload.error
        /\ payload.content # "null") =>
            /\ clientResult.kind = "text"
            /\ payload.text # "absent" => clientResult.text = TextId(payload.text)
            /\ (payload.text = "absent" /\ payload.choices = "some") =>
                   clientResult.text = TextId(payload.content)
            /\ (payload.text = "absent" /\ payload.choices # "some") => clientResult.text = 1

(***************************************************************************)
(* The connection test (checked under SpecCtor)                            *)
(***************************************************************************)

ConnTested == connTest # NoConnTest

\* C26: the connection test never raises and reports success only when the
\* completion call returned a non-empty text; whatever the test reports and
\* however the call failed, construction completes.
C26_SelfCheckNeverFatal ==
    ConnTested =>
        /\ ~connTest.client.raised
        /\ ~connTest.module.raised
        /\ connTest.client.ok =>
               connTest.call.kind = "text" /\ connTest.call.text # "empty"
        /\ connTest.module.ok = connTest.client.ok
        /\ pc = "constructed"
        /\ built = {"prompt_generator", "llm_client", "sql_validator", "log_dir"}

C26_Witness ==
    /\ ConnTested
    /\ connTest.call.kind = "exception"
    /\ ~connTest.module.ok
    /\ pc = "constructed"
    /\ served = MaxServed

(***************************************************************************)
(* The order of the decision policy (checked under Spec)                   *)
(***************************************************************************)

\* the reasons of the steps of _should_attempt_correction, in the order of
\* lines 188-233
DecisionSteps == <<"not_executable", "empty_result", "error_pattern", "aggregate_missing",
                   "potential_improvement", "exploration", "no_correction">>

\* step k matches the request and its validation result; step 6 matches a
\* draw below the threshold, step 7 always
StepMatches(k) ==
    CASE k = 1 -> ~initial_validation_result.is_executable
      [] k = 2 -> initial_validation_result.result_count = 0
      [] k = 3 -> request.pattern
      [] k = 4 -> request.aggregate
      [] k = 5 -> request.improve
      [] k = 6 -> decision.draw # NoDraw /\ decision.draw < ExploreThreshold
      [] OTHER -> TRUE

FirstMatchingStep ==
    CHOOSE k \in 1..Len(DecisionSteps) : StepMatches(k) /\ \A j \in 1..(k - 1) : ~StepMatches(j)

DecisionTaken == decision # NoDecision

\* C27: the decision is that of the earliest matching step in the order
\* not executable, zero rows, lexical pattern, missing aggregate, structural
\* improvement, exploration draw, no correction; the random draw is taken only
\* when none of the first five steps matches.
C27_FirstMatchingStepDecides ==
    DecisionTaken =>
        /\ decision.reason = DecisionSteps[FirstMatchingStep]
        /\ decision.attempt = (FirstMatchingStep < Len(DecisionSteps))
        /\ (decision.draw # NoDraw) = (\A k \in 1..5 : ~StepMatches(k))

\* Zero rows, a suspicious pattern and a structural improvement at once.
C27_Witness ==
    /\ DecisionTaken
    /\ initial_validation_result.is_executable
    /\ StepMatches(2) /\ StepMatches(3) /\ ~StepMatches(4) /\ StepMatches(5)
    /\ decision.reason = "empty_result"

(***************************************************************************)
(* The validation of the initial SQL followed by the decision on it         *)
(* (sql_validator.py 60-88, self_correction_module.py 92 and 185-233).     *)
(* SpecTrigger runs one statement that the engine executes without error   *)
(* and that yields probe.rows rows, and decides on the result.             *)
(***************************************************************************)

\* ' '.join(s.split()) of a stripped s: every run of whitespace becomes one blank
RECURSIVE CollapseSpaces(_)
CollapseSpaces(s) ==
    IF s = <<>> THEN <<>>
    ELSE IF IsSpace(s[1])
    THEN (IF Len(s) > 1 /\ IsSpace(s[2]) THEN <<>> ELSE <<" ">>) \o CollapseSpaces(Tail(s))
    ELSE <<s[1]>> \o CollapseSpaces(Tail(s))

\* SQLValidator._clean_sql
CleanSql(sql) ==
    LET c0 == Strip(sql)
        c1 == IF EndsWith(c0, <<";">>) THEN Strip(SubSeq(c0, 1, Len(c0) - 1)) ELSE c0
        c2 == IF StartsWith(c1, FenceSql) THEN Strip(SubSeq(c1, Len(FenceSql) + 1, Len(c1))) ELSE c1
        c3 == IF StartsWith(c2, Fence) THEN Strip(SubSeq(c2, Len(Fence) + 1, Len(c2))) ELSE c2
        c4 == IF EndsWith(c3, Fence) THEN Strip(SubSeq(c3, 1, Len(c3) - Len(Fence))) ELSE c3
    IN CollapseSpaces(c4)

SelectKeyword == <<"S", "E", "L", "E", "C", "T">>

\* lines 75-76: the rows are fetched and counted only for a statement that
\* starts with SELECT
IsCounted(cleaned, fetch_results) ==
    fetch_results /\ StartsWith(Upper(Strip(cleaned)), SelectKeyword)

\* lines 65-88 for a statement the engine executes: len(results) if results else 0
ExecuteCleaned(sql, rows, fetch_results) ==
    LET cleaned == CleanSql(sql) IN
    IF cleaned = <<>>
    THEN ExecutionResult(FALSE, "SQL query is empty after cleaning", -1)
    ELSE ExecutionResult(TRUE, "None", IF IsCounted(cleaned, fetch_results) THEN rows ELSE -1)

\* statements drawn: a plain SELECT, one behind a WITH clause, one in lower
\* case with blanks and terminator, one inside a code fence
Statements ==
    {<<"S", "E", "L", "E", "C", "T", " ", "a", " ", "F", "R", "O", "M", " ", "t">>,
     <<"W", "I", "T", "H", " ", "c", " ", "A", "S", " ", "(", "S", "E", "L", "E", "C", "T", " ", "a", " ", "F", "R", "O", "M", " ", "t", ")", " ", "S", "E", "L", "E", "C", "T", " ", "a", " ", "F", "R", "O", "M", " ", "c">>,
     <<" ", "s", "e", "l", "e", "c", "t", " ", "1", " ", ";">>,
     <<"BACKTICK", "BACKTICK", "BACKTICK", "s", "q", "l", " ", "S", "E", "L", "E", "C", "T", " ", " ", "a", " ", "F", "R", "O", "M", " ", "t", "BACKTICK", "BACKTICK", "BACKTICK">>}

Probes == [sql : Statements, rows : 0..MaxRows, pattern : BOOLEAN, aggregate : BOOLEAN,
           improve : BOOLEAN]

InitTrigger ==
    /\ pc = "trigger_ready"
    /\ ProcIdle
    /\ ArbIdle
    /\ ClientIdle
    /\ BatchIdle
    /\ ValidatorIdle
    /\ ParserIdle
    /\ CtorIdle
    /\ WireIdle
    /\ PromptIdle
    /\ HintIdle
    /\ ReuseIdle
    /\ StoreIdle
    /\ probe \in Probes
    /\ verdict = NoVerdict

\* module line 464: execute_sql(sql, db_path), fetch_results left at its default
TriggerValidate ==
    /\ pc = "trigger_ready"
    /\ verdict' = [verdict EXCEPT !.result = ExecuteCleaned(probe.sql, probe.rows, TRUE)]
    /\ pc' = "trigger_validated"
    /\ UNCHANGED <<triggerFrame, probe>>

\* module line 92
TriggerDecide ==
    /\ pc = "trigger_validated"
    /\ \E d \in DrawValues :
         verdict' = [verdict EXCEPT !.decision = ShouldAttemptCorrection(probe, verdict.result, d)]
    /\ pc' = "trigger_decided"
    /\ UNCHANGED <<triggerFrame, probe>>

NextTrigger ==
    \/ TriggerValidate
    \/ TriggerDecide

SpecTrigger == InitTrigger /\ [][NextTrigger]_vars

TriggerDecided == pc = "trigger_decided"

\* C28: every initial SQL that executes and yields zero rows is sent to
\* correction with the empty-result reason, whether it starts with SELECT or
\* with another keyword such as WITH.
C28_ZeroRowsAlwaysAttempts ==
    (TriggerDecided /\ verdict.result.is_executable /\ probe.rows = 0) =>
        /\ verdict.decision.attempt
        /\ verdict.decision.reason = "empty_result"

(***************************************************************************)
(* The marker search of the parser (checked under SpecParser)              *)
(***************************************************************************)

HasMarker(cleaned) == \E k \in 1..Len(Markers) : Contains(cleaned, Markers[k])
\* the first marker of the list that occurs in the text
FirstMarker(cleaned) ==
    Markers[CHOOSE k \in 1..Len(Markers) :
                /\ Contains(cleaned, Markers[k])
                /\ \A j \in 1..(k - 1) : ~Contains(cleaned, Markers[j])]
\* the statement extracted from what follows the first marker
FromFirstMarker(cleaned) ==
    ExtractSqlFromText(Strip(AfterFirst(cleaned, FirstMarker(cleaned))))

\* C29: when the text holds a marker, a returned candidate is the one
\* extracted from the text after the first marker in list order; the text ahead
\* of that marker never supplies it.
C29_CandidateFollowsMarker ==
    (ParseDone /\ HasMarker(Strip(response_text)) /\ parsed # NoText) =>
        parsed = FromFirstMarker(Strip(response_text))

(***************************************************************************)
(* PromptGenerator (prompt_generator.py 11-92).  A prompt is the sequence  *)
(* of its parts: one block per few-shot example, the line feed that ends   *)
(* the few-shot section, and the rendered template.                        *)
(***************************************************************************)

\* DEFAULT_FEW_SHOT_EXAMPLES, prompt_templates.py 40-69
DefaultFewShotExamples == <<"cities", "sales_department">>
ConfiguredExamples == {"e1", "e2"}

ExampleBlock(e) == [part |-> "example", of |-> e, body |-> "text"]
SectionEnd == [part |-> "section_end", of |-> "none", body |-> "text"]
Rendered(t) == [part |-> "template", of |-> t.key, body |-> t.body]

\* line 21: few_shot_examples or DEFAULT_FEW_SHOT_EXAMPLES.copy()
ExamplesUsed(ex) ==
    IF ex.given /\ ex.list # <<>> THEN ex.list ELSE DefaultFewShotExamples

\* lines 20 and 44-50: the template of the strategy, or the generic one when
\* that template is empty; the default templates are both non-empty
TemplateUsed(t, strategy) ==
    LET own == IF t.given THEN t ELSE NoPromptIn.templates
        body == IF strategy = "generic" THEN own.generic ELSE own.guided
    IN IF body = "empty" THEN [key |-> "generic", body |-> own.generic]
       ELSE [key |-> strategy, body |-> body]

\* _format_few_shot_examples, lines 65-92
FormatFewShotExamples(examples) ==
    IF examples = <<>> THEN <<>>
    ELSE [i \in 1..Len(examples) |-> ExampleBlock(examples[i])] \o <<SectionEnd>>

\* generate_prompt, lines 44-63
GeneratePrompt(examples, t, strategy) ==
    LET few_shot_section == IF examples # <<>> THEN FormatFewShotExamples(examples) ELSE <<>>
    IN few_shot_section \o <<Rendered(TemplateUsed(t, strategy))>>

PromptInputs ==
    [examples : [given : BOOLEAN,
                 list : UNION {[1..n -> ConfiguredExamples] : n \in 0..MaxExamples}],
     templates : [given : BOOLEAN, generic : {"text", "empty"}, guided : {"text", "empty"}],
     strategy : {"generic", "guided"}]

InitPrompt ==
    /\ pc = "prompt_new"
    /\ ProcIdle
    /\ ArbIdle
    /\ ClientIdle
    /\ BatchIdle
    /\ ValidatorIdle
    /\ ParserIdle
    /\ CtorIdle
    /\ WireIdle
    /\ TriggerIdle
    /\ HintIdle
    /\ ReuseIdle
    /\ StoreIdle
    /\ promptIn \in {i \in PromptInputs :
                        /\ ~i.examples.given => i.examples.list = <<>>
                        /\ ~i.templates.given => i.templates = NoPromptIn.templates}
    /\ few_shot_examples = <<>>
    /\ prompt = <<>>

\* PromptGenerator.__init__
PromptConstruct ==
    /\ pc = "prompt_new"
    /\ few_shot_examples' = ExamplesUsed(promptIn.examples)
    /\ pc' = "prompt_ready"
    /\ UNCHANGED <<promptFrame, promptIn, prompt>>

\* PromptGenerator.generate_prompt
PromptGenerate ==
    /\ pc = "prompt_ready"
    /\ prompt' = GeneratePrompt(few_shot_examples, promptIn.templates, promptIn.strategy)
    /\ pc' = "prompt_done"
    /\ UNCHANGED <<promptFrame, promptIn, few_shot_examples>>

NextPrompt ==
    \/ PromptConstruct
    \/ PromptGenerate

SpecPrompt == InitPrompt /\ [][NextPrompt]_vars

PromptDone == pc = "prompt_done"
\* the few-shot list the configuration holds: none when absent
Configured == IF promptIn.examples.given THEN promptIn.examples.list ELSE <<>>
RenderedTemplate == Rendered(TemplateUsed(promptIn.templates, promptIn.strategy))

\* C30: the prompt starts with one block per configured example, in list
\* order, only if an example is configured; with an empty or absent list the
\* prompt is the rendered template and nothing else.
C30_FewShotOnlyIfConfigured ==
    PromptDone =>
        IF Configured = <<>>
        THEN prompt = <<RenderedTemplate>>
        ELSE prompt = [i \in 1..Len(Configured) |-> ExampleBlock(Configured[i])]
                          \o <<SectionEnd, RenderedTemplate>>

(***************************************************************************)
(* The paths of process (checked under Spec)                               *)
(***************************************************************************)

\* the parser ran, raised nothing and found no statement
ParsedNothing == calls.parse = 1 /\ raisedIn.step # "parse" /\ ~Truthy(corrected_sql)
PastValidateCorrected == pc \in {"arbitrate", "except", "finally", "returned"}

\* C31: when the parser yields no candidate the validator is not run a second
\* time, the corrected result is "not executable" with a message, the audit
\* record has no corrected SQL, corrected executable = false and a validation
\* error, and process returns the initial SQL with "fallback_to_initial" if
\* the initial SQL was executable and "both_not_executable" otherwise.
C31_NoCandidateFallsBack ==
    ParsedNothing =>
        /\ calls.validate = 1
        /\ correction_log.corrected_sql_llm = None
        /\ ~correction_log.corrected_sql_executable
        /\ PastValidateCorrected =>
               /\ corrected_validation_result =
                      ExecutionResult(FALSE, "No corrected SQL to validate", -1)
               /\ correction_log.validation_error # "None"
        /\ (Returned /\ raisedIn = NoFault) =>
               ret = <<InitialSql, IF initial_validation_result.is_executable
                                   THEN "fallback_to_initial" ELSE "both_not_executable">>

C31_Witness ==
    /\ Returned
    /\ ParsedNothing
    /\ raisedIn = NoFault
    /\ llm_response_raw.cand.len > MinCandidateLen
    /\ initial_validation_result.is_executable
    /\ ret = <<InitialSql, "fallback_to_initial">>

CorrectionSteps == {"build_prompt", "call_llm", "llm_error", "parse", "validate_corrected",
                    "arbitrate"}

\* C32: the steps of a call follow the order validate-initial, decide, then
\* skip or build-prompt, call-LLM, parse, validate-corrected, arbitrate, then
\* log, then return.  The LLM is called at most once and only after the initial
\* validation and a decision to attempt; the corrected statement is validated
\* only after an LLM call that returned and a parse that found a statement;
\* the validator runs at most twice; the audit record is written before the
\* result is returned.
C32_StepOrder ==
    /\ calls.llm <= 1 /\ calls.parse <= 1 /\ calls.arbitrate <= 1 /\ calls.validate <= 2
    /\ (DecisionTaken \/ pc = "decide") => calls.validate >= 1
    /\ (pc \in CorrectionSteps \/ calls.llm = 1) =>
           /\ calls.validate >= 1
           /\ DecisionTaken /\ decision.attempt
    /\ pc = "skip" => (DecisionTaken /\ ~decision.attempt /\ calls.llm = 0)
    /\ (DecisionTaken /\ ~decision.attempt) =>
           (calls.llm = 0 /\ calls.parse = 0 /\ calls.validate = 1 /\ calls.arbitrate = 0)
    /\ (calls.llm = 1 /\ pc # "call_llm") => correction_log.prompt_used
    /\ calls.parse = 1 => (calls.llm = 1 /\ llm_response_raw # NoResponse)
    /\ calls.validate = 2 =>
           (calls.parse = 1 /\ raisedIn.step # "parse" /\ Truthy(corrected_sql))
    /\ calls.arbitrate = 1 => (calls.parse = 1 /\ corrected_validation_result # NoResult)
    /\ Returned =>
           /\ calls.save_log >= 1
           /\ ~logFailed =>
                  /\ Len(logSink) >= 1
                  /\ logSink[Len(logSink)].correction_status = ret[2]

C32_Witness ==
    /\ Returned
    /\ calls = [validate |-> 2, llm |-> 1, parse |-> 1, arbitrate |-> 1, save_log |-> 1]
    /\ Len(logSink) = 1
    /\ ret[2] = "corrected"

(***************************************************************************)
(* The hint of the prompt (self_correction_module.py 88-113, 251-270 and   *)
(* 311-325).  SpecHint validates an initial SQL, takes the decision to     *)
(* attempt a correction and builds the hint, as process does.              *)
(***************************************************************************)

\* the results _validate_sql and execute_sql return before the statement runs
GuardMessages == {"SQL or DB path is empty", "Validator error", "SQL query is empty",
                  "Database file not found", "SQL query is empty after cleaning"}
AmbiguousColumn == VFault("execute", "OperationalError", EngineMessage("ambiguous", "name"))

HintCases ==
    [kind : {"fault"}, fault : OpenFaults \cup ExecuteFaults \cup {AmbiguousColumn},
     text : {"none"}]
    \cup [kind : {"guard"}, fault : {NoVFault}, text : GuardMessages]
    \cup {[kind |-> "executes", fault |-> NoVFault, text |-> "none"]}

\* the reasons _should_attempt_correction gives for an executable statement
\* with rows (steps 3 to 6)
RowReasons == {"table_name_plural", "column_name_case", "possible_redundant_reference",
               "count", "avg", "max", "min", "potential_improvement", "exploration"}

\* what error_message.lower() holds of the substrings _generate_guided_hint
\* looks for: the class execute_sql puts in front, then str(e)
ErrorHolds(c, vr) ==
    (IF vr.error_message = "Syntax error" THEN {"syntax error"} ELSE {})
    \cup (IF c.kind = "fault" /\ c.fault.class = "OperationalError"
          THEN MessageHolds(c.fault.msg) \cap {"syntax error", "no such table", "no such column"}
          ELSE {})
    \cup (IF c.kind = "fault" /\ c.fault.msg.cause = "ambiguous"
          THEN {"ambiguous column name"} ELSE {})

\* _generate_guided_hint, lines 311-325
GenerateGuidedHint(has_error, holds) ==
    IF ~has_error THEN "generic_directive"
    ELSE IF "syntax error" \in holds THEN "syntax_directive"
    ELSE IF "no such table" \in holds \/ "no such column" \in holds THEN "schema_directive"
    ELSE IF "ambiguous column name" \in holds THEN "ambiguous_directive"
    ELSE "echo"

\* _generate_improvement_hint, lines 251-270
GenerateImprovementHint(reason) ==
    IF reason \in {"table_name_plural", "column_name_case", "count", "avg", "max", "min"}
    THEN reason
    ELSE IF reason = "potential_improvement" THEN "review_optimizations"
    ELSE "conservative"

InitHint ==
    /\ pc = "hint_validate"
    /\ ProcIdle
    /\ ArbIdle
    /\ ClientIdle
    /\ BatchIdle
    /\ ValidatorIdle
    /\ ParserIdle
    /\ CtorIdle
    /\ WireIdle
    /\ TriggerIdle
    /\ PromptIdle
    /\ ReuseIdle
    /\ StoreIdle
    /\ hintCase \in HintCases
    /\ hinted = NoHinted

\* lines 88-89
HintValidate ==
    /\ pc = "hint_validate"
    /\ \E rows \in {0, 1} :
         hinted' = [hinted EXCEPT !.result =
                      CASE hintCase.kind = "fault" -> HandleFault(hintCase.fault)
                        [] hintCase.kind = "guard" -> ExecutionResult(FALSE, hintCase.text, -1)
                        [] OTHER -> ExecutionResult(TRUE, "None", rows)]
    /\ pc' = "hint_decide"
    /\ UNCHANGED <<hintFrame, hintCase>>

\* lines 92-97, for a decision to attempt
HintDecide ==
    /\ pc = "hint_decide"
    /\ \E reason \in RowReasons :
         hinted' = [hinted EXCEPT !.reason =
                      IF ~hinted.result.is_executable THEN "not_executable"
                      ELSE IF hinted.result.result_count = 0 THEN "empty_result"
                      ELSE reason]
    /\ pc' = "hint_build"
    /\ UNCHANGED <<hintFrame, hintCase>>

\* lines 108-113
HintBuild ==
    /\ pc = "hint_build"
    /\ hinted' = [hinted EXCEPT !.hint =
                    IF ~hinted.result.is_executable
                    THEN GenerateGuidedHint(hinted.result.error_message # "None",
                                            ErrorHolds(hintCase, hinted.result))
                    ELSE GenerateImprovementHint(hinted.reason)]
    /\ pc' = "hint_built"
    /\ UNCHANGED <<hintFrame, hintCase>>

NextHint ==
    \/ HintValidate
    \/ HintDecide
    \/ HintBuild

SpecHint == InitHint /\ [][NextHint]_vars

HintBuilt == pc = "hint_built"
UnknownTableOrColumn ==
    /\ hintCase.kind = "fault"
    /\ hintCase.fault.class = "OperationalError"
    /\ hintCase.fault.msg.cause \in {"no_table", "no_column"}

\* C33: when the initial SQL fails because it names an unknown table or column,
\* the hint of the prompt is the missing-table/column directive, not the
\* syntax directive and not the echo of the error: the hint class agrees with
\* the cause the engine reported.
C33_HintAgreesWithCause ==
    (HintBuilt /\ UnknownTableOrColumn) => hinted.hint = "schema_directive"

(***************************************************************************)
(* One orchestrator used for many requests (self_correction_main, lines    *)
(* 500-544, and callers that share the instance).  SpecReuse runs calls of *)
(* process for two callers; each call is cut at its two calls to the       *)
(* outside (database, LLM), where another call can run in between.  What   *)
(* the database, the LLM and the random source answer is part of the       *)
(* request drawn.                                                          *)
(***************************************************************************)

\* the statement every request of the batch carries, and the one the LLM writes
ReuseSql == Str(MinCandidateLen + 1, 1)
ReuseCorrected == Str(MinCandidateLen + 1, 2)
ReuseRequest == [initial_sql |-> ReuseSql, db_path |-> "database/d1/d1.sqlite",
                 pattern |-> FALSE, aggregate |-> FALSE, improve |-> FALSE]
ReuseInputs == [o1 : {"rows", "syntax"}, d : {0, 99}, llm : {"text", "LLMError"},
                o2 : {"rows", "syntax"}]

\* process assigns no attribute of self, of self.config or of a collaborator
\* (lines 63-183 and the methods they call)
InstanceAfterLastCall(inst, in) ==
    [inst EXCEPT !.client.max_retries = IF in.llm = "LLMError" THEN 0 ELSE @]
InstanceAfter(inst, in) == inst

\* lines 127-171 for a call whose LLM answer and second validation are in.llm, in.o2
CorrectionPair(in, ivr) ==
    IF in.llm = "LLMError" THEN <<ReuseSql, "api_error">>
    ELSE ApplyIntelligentFallbackStrategy(
             ReuseSql, ivr, ReuseCorrected,
             ValidateSql(ReuseCorrected, ReuseRequest.db_path, in.o2))

\* process as one function of the request and of the outside's answers
ProcessPair(in) ==
    LET ivr == ValidateSql(ReuseSql, ReuseRequest.db_path, in.o1) IN
    IF ShouldAttemptCorrection(ReuseRequest, ivr, in.d).attempt
    THEN CorrectionPair(in, ivr)
    ELSE <<ReuseSql, "no_correction_needed">>

InitReuse ==
    /\ pc = "reuse"
    /\ ProcIdle
    /\ ArbIdle
    /\ ClientIdle
    /\ BatchIdle
    /\ ValidatorIdle
    /\ ParserIdle
    /\ CtorIdle
    /\ WireIdle
    /\ TriggerIdle
    /\ PromptIdle
    /\ HintIdle
    /\ StoreIdle
    /\ instance = ConstructedInstance
    /\ slots = [c \in Callers |-> IdleSlot]

\* a caller calls process (or calls it again)
ReuseCall ==
    /\ \E c \in Callers, in \in ReuseInputs :
         /\ slots[c].phase \in {"idle", "returned"}
         /\ slots' = [slots EXCEPT ![c] = [phase |-> "validate", in |-> in,
                                          ivr |-> NoResult, pair |-> NoRet]]
    /\ UNCHANGED <<pc, reuseFrame, instance>>

\* lines 88-103: initial validation and decision
ReuseValidate ==
    /\ \E c \in Callers :
         /\ slots[c].phase = "validate"
         /\ LET in == slots[c].in
                ivr == ValidateSql(ReuseSql, ReuseRequest.db_path, in.o1) IN
              /\ slots' = [slots EXCEPT ![c] =
                     IF ShouldAttemptCorrection(ReuseRequest, ivr, in.d).attempt
                     THEN [@ EXCEPT !.phase = "correct", !.ivr = ivr]
                     ELSE [@ EXCEPT !.phase = "returned", !.ivr = ivr,
                                    !.pair = <<ReuseSql, "no_correction_needed">>]]
              /\ instance' = InstanceAfter(instance, in)
    /\ UNCHANGED <<pc, reuseFrame>>

\* lines 106-183: prompt, LLM call, parse, second validation, arbiter, return
ReuseCorrect ==
    /\ \E c \in Callers :
         /\ slots[c].phase = "correct"
         /\ slots' = [slots EXCEPT ![c] =
                [@ EXCEPT !.phase = "returned",
                          !.pair = CorrectionPair(slots[c].in, slots[c].ivr)]]
         /\ instance' = InstanceAfter(instance, slots[c].in)
    /\ UNCHANGED <<pc, reuseFrame>>

NextReuse ==
    \/ ReuseCall
    \/ ReuseValidate
    \/ ReuseCorrect

SpecReuse == InitReuse /\ [][NextReuse]_vars

C35_OnlyValidatedCandidateReplaces ==
    Returned =>
      /\ ret[1] # InitialSql =>
           /\ ret[2] = "corrected"
           /\ calls.validate = 2
           /\ ret[1] = corrected_sql
           /\ corrected_validation_result.is_executable
           /\ correction_log.corrected_sql_executable
      /\ ret[2] \in {"no_correction_needed", "fallback_corrected_too_complex",
                     "fallback_to_initial", "both_not_executable", "api_error",
                     "internal_error"} => ret[1] = InitialSql

\* A call in which an executable candidate other than the initial SQL was
\* turned down: the initial SQL comes back.
C35_Witness ==
    /\ Returned
    /\ ret = <<InitialSql, "fallback_corrected_too_complex">>
    /\ Truthy(corrected_sql)
    /\ corrected_sql # InitialSql
    /\ corrected_validation_result.is_executable

(***************************************************************************)
(* process under asynchronous interrupts.  A KeyboardInterrupt or a        *)
(* SystemExit is a BaseException: "except Exception" (line 173, and line   *)
(* 479 in _save_log) does not catch it, the finally clause (lines 180-183) *)
(* runs, and its return statement discards the exception in flight.        *)
(* SpecInterrupt is Spec with an interrupt arriving between two steps.     *)
(***************************************************************************)

Interrupts == {"KeyboardInterrupt", "SystemExit"}

\* the steps inside the try statement of lines 86-178
TryBlock == {"validate_initial", "decide", "skip", "build_prompt", "call_llm",
             "llm_error", "parse", "validate_corrected", "arbitrate", "except"}

\* lines 86-183: an interrupt inside try or except transfers to finally
InterruptInTry ==
    /\ pc \in TryBlock
    /\ \E k \in Interrupts :
         /\ exc' = k
         /\ raisedIn' = Fault(pc, k)
    /\ pc' = "finally"
    /\ UNCHANGED <<request, correction_log, initial_validation_result,
                   corrected_validation_result, decision, llm_response_raw,
                   corrected_sql, ret, calls, logSink, logFailed, arbIn, arbOut,
                   harnessVars>>

\* lines 67-84 and 180-182: an interrupt before the try statement or inside the
\* finally clause reaches the caller
InterruptOutsideTry ==
    /\ pc \in {"start", "finally"}
    /\ \E k \in Interrupts :
         /\ exc' = k
         /\ raisedIn' = Fault(pc, k)
    /\ pc' = "raised"
    /\ UNCHANGED <<request, correction_log, initial_validation_result,
                   corrected_validation_result, decision, llm_response_raw,
                   corrected_sql, ret, calls, logSink, logFailed, arbIn, arbOut,
                   harnessVars>>

NextInterrupt ==
    \/ Next
    \/ InterruptInTry
    \/ InterruptOutsideTry

SpecInterrupt == Init /\ [][NextInterrupt]_vars

FinalStatuses == {"no_correction_needed", "corrected", "fallback_corrected_too_complex",
                  "fallback_to_initial", "both_not_executable", "api_error",
                  "internal_error"}

\* C36: the status process returns is one of the seven final statuses; the
\* placeholder "correction_failed" of lines 69-83 is never returned, whatever
\* fault or interruption occurs during the call.
C36_PlaceholderNeverReturned ==
    Returned => (ret[2] \in FinalStatuses /\ ret[2] # "correction_failed")

\* the audit record last written in this call
LastRecord == logSink[Len(logSink)]

\* C37: the pair process returns is (final_sql_output, correction_status) of
\* the audit record last written in the call; the record's executability flags
\* are the results of the validations of the call; a record with the status
\* "corrected" has corrected_sql_executable true and final_sql_output equal to
\* corrected_sql_llm.
C37_RecordMatchesReturn ==
    /\ (Returned /\ Len(logSink) >= 1) =>
         /\ ret = <<LastRecord.final_sql_output, LastRecord.correction_status>>
         /\ LastRecord.initial_sql_executable = initial_validation_result.is_executable
         /\ calls.validate = 2 =>
              LastRecord.corrected_sql_executable = corrected_validation_result.is_executable
         /\ calls.validate < 2 => ~LastRecord.corrected_sql_executable
    /\ \A i \in 1..Len(logSink) :
         logSink[i].correction_status = "corrected" =>
           /\ logSink[i].corrected_sql_executable
           /\ logSink[i].final_sql_output = logSink[i].corrected_sql_llm

\* A call that returned the corrected SQL of an initial statement that ran,
\* with its record on disk.
C37_Witness ==
    /\ Returned
    /\ Len(logSink) = 1
    /\ LastRecord.correction_status = "corrected"
    /\ LastRecord.initial_sql_executable
    /\ LastRecord.corrected_sql_executable
    /\ ret = <<LastRecord.corrected_sql_llm, "corrected">>

\* the attempt with 0-based index i - 1 received a response and raised LLMError
\* while handling it
ResponseFailure(i) == transportLog[i].kind = "llm_error"

\* C38: an LLMError raised while handling a received response ends
\* get_correction at once, whatever max_retries is and on whichever attempt it
\* happens: it is the last attempt, the call ends with that LLMError, the last
\* thing on the wire is the request it answered, and the only waits are those
\* of the attempts before it.
C38_ResponseFailureEndsCall ==
    \A i \in 1..Len(transportLog) :
      ResponseFailure(i) =>
        /\ i = Len(transportLog)
        /\ WDone
        /\ attempt = i - 1
        /\ clientResult = ClientResult("LLMError", "response", 0)
        /\ wire[Len(wire)].ev = "post"
        /\ Len(sleeps) = i - 1

\* A response-level failure on the second of three allowed attempts.
C38_Witness ==
    /\ WDone
    /\ max_retries = MaxWireRetries
    /\ Len(transportLog) = 2
    /\ ResponseFailure(2)
    /\ transportLog[1].kind = "timeout"
    /\ sleeps = <<1>>

(***************************************************************************)
(* execute_sql and the database file (sql_validator.py, lines 55-127).     *)
(* The connection is opened by sqlite3.connect with the default isolation  *)
(* level: the sqlite3 module issues BEGIN before a statement whose first   *)
(* keyword is INSERT, UPDATE, DELETE or REPLACE and before no other; a     *)
(* statement executed outside a transaction is committed by the engine as  *)
(* it completes.  close() without commit() discards the open transaction.  *)
(***************************************************************************)

Verbs == {"SELECT", "INSERT", "UPDATE", "DELETE", "REPLACE", "DROP", "CREATE"}
\* cte: the statement starts with a WITH clause
StoreStatements ==
    [verb : Verbs, cte : {FALSE}]
    \cup [verb : {"SELECT", "INSERT", "UPDATE", "DELETE"}, cte : {TRUE}]

RowValues == {1, 2}
RECURSIVE RowSeqs(_)
RowSeqs(n) ==
    IF n <= 0 THEN {<<>>}
    ELSE RowSeqs(n - 1) \cup {Append(q, v) : q \in {r \in RowSeqs(n - 1) : Len(r) = n - 1},
                                            v \in RowValues}
Contents == {Content(ts, rows) : ts \in {{"t"}, {"t", "u"}}, rows \in RowSeqs(MaxRows - 1)}

\* the sqlite3 module opens a transaction before the statement
OpensTransaction(stmt) ==
    ~stmt.cte /\ stmt.verb \in {"INSERT", "UPDATE", "DELETE", "REPLACE"}

\* the engine rejects the statement (CREATE TABLE u when u exists)
EngineRejects(stmt, c) == stmt.verb = "CREATE" /\ "u" \in c.tables

\* what the statement does to the content it runs on
Effect(stmt, c) ==
    CASE stmt.verb \in {"INSERT", "REPLACE"} -> Content(c.tables, Append(c.rows, 1))
      [] stmt.verb = "UPDATE" -> Content(c.tables, [i \in 1..Len(c.rows) |-> 2])
      [] stmt.verb = "DELETE" -> Content(c.tables, <<>>)
      [] stmt.verb = "DROP" -> Content(c.tables \ {"t"}, <<>>)
      [] stmt.verb = "CREATE" -> Content(c.tables \cup {"u"}, c.rows)
      [] OTHER -> c

InitStore ==
    /\ pc = "db_connect"
    /\ ProcIdle
    /\ ArbIdle
    /\ ClientIdle
    /\ BatchIdle
    /\ ValidatorIdle
    /\ ParserIdle
    /\ CtorIdle
    /\ WireIdle
    /\ TriggerIdle
    /\ PromptIdle
    /\ HintIdle
    /\ ReuseIdle
    /\ database \in Contents
    /\ \E stmt \in StoreStatements :
         session = [stmt |-> stmt, before |-> database, working |-> database,
                    in_transaction |-> FALSE, error |-> "unset"]

\* lines 57-63: connect, PRAGMA foreign_keys = ON
StoreConnect ==
    /\ pc = "db_connect"
    /\ pc' = "db_execute"
    /\ UNCHANGED <<storeFrame, database, session>>

\* line 70: cursor.execute(cleaned_sql)
StoreExecute ==
    /\ pc = "db_execute"
    /\ LET stmt == session.stmt IN
         IF EngineRejects(stmt, database)
         THEN /\ session' = [session EXCEPT !.error = "operational"]
              /\ database' = database
         ELSE IF OpensTransaction(stmt)
         THEN /\ session' = [session EXCEPT !.working = Effect(stmt, database),
                                            !.in_transaction = TRUE,
                                            !.error = "none"]
              /\ database' = database
         ELSE /\ session' = [session EXCEPT !.working = Effect(stmt, database),
                                            !.error = "none"]
              /\ database' = Effect(stmt, database)
    /\ pc' = "db_close"
    /\ UNCHANGED storeFrame

\* lines 124-127: finally conn.close(); no commit anywhere in execute_sql
StoreClose ==
    /\ pc = "db_close"
    /\ session' = [session EXCEPT !.working = database, !.in_transaction = FALSE]
    /\ pc' = "db_returned"
    /\ UNCHANGED <<storeFrame, database>>

NextStore ==
    \/ StoreConnect
    \/ StoreExecute
    \/ StoreClose

SpecStore == InitStore /\ [][NextStore]_vars

StoreReturned == pc = "db_returned"

\* C39: when execute_sql has returned, the content of the database is what
\* it was before the call, for every statement executed.
C39_ValidationLeavesDatabase ==
    StoreReturned => database = session.before

====
